---------------------------- MODULE Spec2Model ----------------------------
(***************************************************************************)
(* Readings ingestion and storage core of Fledge:                          *)
(*   - ReadingsCatalogue : global id record, asset -> table catalogue      *)
(*   - Connection        : appendReadings, purgeReadings                   *)
(*   - Ingest            : producer queue, flush worker, stats worker      *)
(* All of it lives in src/C/plugins/storage/sqlite/common/readings.cpp.    *)
(*                                                                         *)
(* Each component has its own specification over its own group of          *)
(* variables; the variables of the other groups stay at their initial      *)
(* values.                                                                 *)
(***************************************************************************)
EXTENDS Integers, Sequences, FiniteSets, TLC

(***************************************************************************)
(* Bounds of the model                                                     *)
(***************************************************************************)
\* ids are issued while the in-memory global id is below this cap
MaxGlobalId == 3

\* the service is started at most this many times
MaxBoots == 3

\* rowids of the small readings_1 tables the purge starts from
MaxRow == 4

\* rows of the large, dense readings_1 table the purge starts from
BigRows == 650

\* appendReadings calls made by other connections while the purge runs
MaxWriteCalls == 2

\* getReadingReference calls in a run
MaxRefCalls == 4

\* readings tables made per database file (getnReadingsAllocate)
ReadingsAllocate == 1

\* readings the producers hand to Ingest::ingest in a run
MaxReadings == 7

\* readings in the vector given to Ingest::ingest(const vector<Reading *> *)
VecSize == 6

\* m_queueSizeThreshold, as given to the constructor
QueueSizeThreshold == 2

\* the payload of appendReadings has at most MaxBatch elements
MaxBatch == 2

\* the calls of appendReadings on the connection, one after the other
ApCalls == {1, 2}

\* if (m_failCnt > 5) and for (int cnt = 5; ...) of Ingest::processQueue
ResendFailLimit == 5
ResendDropCount == 5

(***************************************************************************)
(* Program constants                                                       *)
(***************************************************************************)
PURGE_DELETE_BLOCK_SIZE == 20
TARGET_PURGE_BLOCK_DEL_TIME == 70000
PURGE_BLOCK_SZ_GRANULARITY == 5
MIN_PURGE_DELETE_BLOCK_SIZE == 20
MAX_PURGE_DELETE_BLOCK_SIZE == 1500
RECALC_PURGE_BLOCK_SIZE_NUM_BLOCKS == 30
ByRowsStep == 10000
PREP_CMD_MAX_RETRIES == 20
MAX_RETRIES == 40
RETRY_BACKOFF == 100

(***************************************************************************)
(* Small helpers                                                           *)
(***************************************************************************)
Assets == {"A", "B"}

SetMax(S) == CHOOSE x \in S : \A y \in S : y <= x

SetMin(S) == CHOOSE x \in S : \A y \in S : x <= y

VARIABLES
    \* ---- global id record and its life cycle (ReadingsCatalogue) ----
    configuration_readings, \* rows of readings.configuration_readings: <<>> or <<global_id>>
    m_globalId,             \* ReadingsCatalogue::m_globalId, the next id to use
    svc,                    \* "down" | "booting" | "up"
    gidCatalogue,           \* asset -> table id (0: no entry), as loaded/extended
    gidTables,              \* table id -> set of row ids in readings_<table id>
    curLast,                \* history: last id issued in the current run (<<>>: none)
    prevLast,               \* history: last id issued in the run that ended last
    prevStop,               \* history: how the previous run ended
    bootStored,             \* history: the stored value evaluateGlobalId read (<<>>: no row)
    bootMax,                \* history: max id over all readings tables at boot (0: none)
    boots,                  \* number of service starts so far
    \* ---- purge (Connection::purgeReadings on readings_1) ----
    purgeBlockSize,         \* static int purgeBlockSize
    m_writeAccessOngoing,   \* static std::atomic<int> m_writeAccessOngoing
    readings_1,             \* the table: ascending runs [lo, hi, age] of rows lo..hi,
                            \* each user_ts being `age` seconds before now
    nextRowId,              \* id the next appended row gets
    writeCalls,             \* appendReadings calls started so far
    writersActive,          \* appendReadings calls under way
    pcPurge,                \* where the purge worker is
    pg,                     \* the locals of the running purgeReadings call
    purgeCall,              \* history: arguments, table at entry and result of the last call
    \* ---- asset catalogue (ReadingsCatalogue::getReadingReference) ----
    m_AssetReadingCatalogue,      \* asset -> <<table_id, db_id>>, <<>> when not in the map
    asset_reading_catalogue,      \* rows <<table_id, db_id, asset_code>> of the table
    m_nReadingsAvailable,         \* free readings tables
    m_dbId,                       \* the database file in use
    m_mutexAssetReadingCatalogue, \* 0 or the writer that holds the mutex
    catPc,                        \* writer -> where it is in getReadingReference
    catAsset,                     \* writer -> asset_code of its call
    catReadingsId,                \* writer -> <<readingsId, path>> of its call
    catReturned,                  \* history: asset -> table ids returned for it
    catPaths,                     \* history: asset -> paths its calls returned by
    catCreated,                   \* history: <<asset, entry>> as put into the map
    catTables,                    \* the readings tables that exist: <<table id, database id>>
    refCalls,                     \* getReadingReference calls so far
    \* ---- ingest (Ingest) ----
    m_queue,                \* the queue in use: readings in arrival order
    m_fullQueues,           \* the full queues, oldest first
    m_resendQueues,         \* the batches whose append failed, oldest first
    m_data,                 \* the batch processQueue is sending
    m_failCnt,              \* failed appends in a row
    m_running,              \* Ingest::m_running
    m_shutdown,             \* Ingest::m_shutdown
    ingPersisted,           \* history: readings of the batches appended with success
    ingDiscarded,           \* history: readings logDiscardedStat was called for
    ingNext,                \* the number the next accepted reading gets
    prodPc,                 \* producer -> where it is in Ingest::ingest
    prodFull,               \* producer -> its local fullQueue
    ingPc,                  \* caller of processQueue -> where it is
    statsPendingEntries,    \* readings counted for the statistics, all assets together
    m_discardedReadings,    \* discarded readings counted for the statistics
    ingFails,               \* history: failed appends in a row of the batch to resend
    cfgPc,                  \* where the thread in Ingest::configChange is
    \* ---- appendReadings (Connection) ----
    apCommitted,            \* the rows of the readings tables that are committed
    apPending,              \* the rows written in the transaction that is open
    apTxn,                  \* a transaction is open on dbHandle
    apPc,                   \* where the call is: "idle", "loop", "step"
    apBatch,                \* the elements of the readings array of the payload
    apIdx,                  \* the element the loop is at
    apRow,                  \* int row: the rows inserted by the call so far
    retries,                \* int retries of the step loop
    readingsStmt,           \* asset -> its INSERT statement is prepared
    stmt,                   \* <<>> for nullptr, <<a>> for the statement of asset a
    lastAsset,              \* string lastAsset
    apCall,                 \* history: the number of the call
    apEntry,                \* history: the tables and the transaction when the call began
    apReturn,               \* history: <<>> or <<what the last call returned and why>>
    apBadDates,             \* history: the readings skipped for their date
    \* ---- SQLexec, SQLStep (ReadingsCatalogue) ----
    sqlPc,                  \* "idle" or "run"
    sqlFn,                  \* the function that runs
    sqlRetries,             \* int retries
    sqlRc,                  \* int rc: <<>> before the first attempt
    sqlAttempts,            \* history: the calls of sqlite3_exec or sqlite3_step
    sqlSlept,               \* history: the microseconds slept
    sqlReturned,            \* history: <<>> or <<the value returned>>
    \* ---- the recalculation of purgeBlockSize ----
    recalcOld,              \* history: purgeBlockSize when the recalculation began
    \* ---- purgeReadingsByRows (Connection) ----
    readings,               \* the table readings: runs of ids [lo, hi], ascending
    brPc,                   \* "idle", "loop", "done"
    brArgs,                 \* rows, flags, sent and the local limit
    brIter,                 \* history: <<>> or <<the delete point, ceiling and rows of the last pass>>
    brMaxDeleted,           \* history: the largest id the call has deleted, 0 if none
    brResult,               \* deletedRows, unsentPurged, numReadings
    \* ---- Ingest: the statistics ----
    statsPendingMap,        \* statsPendingEntries: asset name -> readings counted, not yet submitted
    statsDiscardedCnt,      \* m_discardedReadings as updateStats sees it
    statsDbEntriesCache,    \* the asset names a statistics row was asked for
    statistics,             \* the table statistics: key -> value
    stPersisted,            \* history: asset name -> readings of the batches appended with success
    stDiscarded,            \* history: the calls of logDiscardedStat
    stLast,                 \* history: what the last call of updateStats saw and submitted
    \* ---- Ingest: the filter pipeline ----
    m_pipelineMutex,        \* "free" or the thread that holds it
    m_filterPipeline,       \* <<>> for NULL, <<i>> for the FilterPipeline i
    pipeState,              \* FilterPipeline -> "none", "new", "loaded", "ready", "config", "cleaned", "deleted"
    plPc,                   \* thread -> where it is
    filterPipeline,         \* the local of loadFilters: <<>> or <<i>>
    plRunning,              \* m_running as configChange writes it
    plTraversed,            \* history: <<>> or <<the pipeline the batch of the worker is in>>
    \* ---- Connection: appendReadings, readingStream and fetchReadings on the tables ----
    stoTables,              \* readings table id -> its rows, each [id, asset]
    stoGlobalId,            \* m_globalId
    stoCatalogue,           \* asset -> the id of its readings table, 0 when it has none
    stoLast,                \* history: <<>> or <<the function that ran and what it returned>>
    stoTwin,                \* history: <<>> or <<what the other function leaves for the same call>>
    stoFetch,               \* history: <<>> or <<the last call of fetchReadings and its rows>>
    \* ---- ReadingsCatalogue: preallocateReadingsTables at start ----
    preLoaded,              \* history: <<>> or <<the catalogue as loaded, m_dbId and what getUsedTablesDbId returned>>
    \* ---- Ingest: the threads from construction to ~Ingest ----
    lifePc,                 \* thread -> where it is: flush, stats, dtor (~Ingest), config (configChange)
    \* ---- Ingest::processQueue with the filter pipeline, batches as sizes ----
    fqPc,                   \* where processQueue is: idle, resend, take, filter, append, loop
    fqFull,                 \* m_fullQueues: the sizes of the batches on it
    fqResend,               \* m_resendQueues: the sizes of the batches on it
    fqData,                 \* m_data: <<>> for NULL or <<the size of the batch>>
    fqFailCnt,              \* m_failCnt
    fqUnsignalled,          \* history: batches persisted by this call since its last signalStatsUpdate
    fqChecked,              \* history: <<>> or <<what the last m_fullQueues.empty() of this call returned>>
    fqReturn,               \* history: <<>> or <<the path of the last return and the state it left>>
    \* ---- Ingest: the order of the readings of a producer up to their global ids ----
    ordQueue,               \* m_queue: readings <<number in the order of acceptance, producer>>
    ordLocal,               \* producer -> the fullQueue local to its call of ingest, <<>> when it has none
    ordFull,                \* m_fullQueues
    ordResend,              \* m_resendQueues
    ordData,                \* m_data
    ordFailCnt,             \* m_failCnt
    ordPc,                  \* where the flush thread is in processQueue: resend, append
    ordNext,                \* the number of the next reading to be accepted
    ordPersisted            \* the readings inserted, in the order of their global ids

gidVars == <<configuration_readings, m_globalId, svc, gidCatalogue, gidTables,
             curLast, prevLast, prevStop, bootStored, bootMax, boots>>

purgeVars == <<purgeBlockSize, m_writeAccessOngoing, readings_1, nextRowId, writeCalls,
               writersActive, pcPurge, pg, purgeCall>>

catVars == <<m_AssetReadingCatalogue, asset_reading_catalogue, m_nReadingsAvailable, m_dbId,
             m_mutexAssetReadingCatalogue, catPc, catAsset, catReadingsId, catReturned,
             catPaths, catCreated, catTables, refCalls>>

ingestVars == <<m_queue, m_fullQueues, m_resendQueues, m_data, m_failCnt, m_running, m_shutdown,
                ingPersisted, ingDiscarded, ingNext, prodPc, prodFull, ingPc,
                statsPendingEntries, m_discardedReadings, ingFails, cfgPc>>

ingStats == <<statsPendingEntries, m_discardedReadings, ingFails, cfgPc>>

appendVars == <<apCommitted, apPending, apTxn, apPc, apBatch, apIdx, apRow, retries,
                readingsStmt, stmt, lastAsset, apCall, apEntry, apReturn, apBadDates>>

retryVars == <<sqlPc, sqlFn, sqlRetries, sqlRc, sqlAttempts, sqlSlept, sqlReturned>>

\* the purge variables appendReadings does not write
purgeRest == <<purgeBlockSize, readings_1, nextRowId, writeCalls, writersActive, pcPurge,
               pg, purgeCall>>

recalcVars == <<recalcOld>>

byRowsVars == <<readings, brPc, brArgs, brIter, brMaxDeleted, brResult>>
statsVars == <<statsPendingMap, statsDiscardedCnt, statsDbEntriesCache, statistics,
               stPersisted, stDiscarded, stLast>>
pipeVars == <<m_pipelineMutex, m_filterPipeline, pipeState, plPc, filterPipeline, plRunning,
              plTraversed>>
storeVars == <<stoTables, stoGlobalId, stoCatalogue, stoLast, stoTwin, stoFetch>>
preVars == <<preLoaded>>
lifeVars == <<lifePc>>
fqVars == <<fqPc, fqFull, fqResend, fqData, fqFailCnt, fqUnsignalled, fqChecked, fqReturn>>
ordVars == <<ordQueue, ordLocal, ordFull, ordResend, ordData, ordFailCnt, ordPc, ordNext,
             ordPersisted>>

vars == <<gidVars, purgeVars, catVars, ingestVars, appendVars, retryVars, recalcVars,
          byRowsVars,
          statsVars,
          pipeVars,
          storeVars,
          preVars,
          lifeVars,
          fqVars,
          ordVars>>

\* what the actions of one component leave alone
NotGid == <<purgeVars, catVars, ingestVars, appendVars, retryVars, recalcVars, byRowsVars, statsVars, pipeVars, storeVars, preVars, lifeVars, fqVars, ordVars>>
NotPurge == <<gidVars, catVars, ingestVars, appendVars, retryVars, recalcVars, byRowsVars, statsVars, pipeVars, storeVars, preVars, lifeVars, fqVars, ordVars>>
NotCat == <<gidVars, purgeVars, ingestVars, appendVars, retryVars, recalcVars, byRowsVars, statsVars, pipeVars, storeVars, preVars, lifeVars, fqVars, ordVars>>
NotIngest == <<gidVars, purgeVars, catVars, appendVars, retryVars, recalcVars, byRowsVars, statsVars, pipeVars, storeVars, preVars, lifeVars, fqVars, ordVars>>
NotAppend == <<gidVars, purgeRest, catVars, ingestVars, retryVars, recalcVars, byRowsVars, statsVars, pipeVars, storeVars, preVars, lifeVars, fqVars, ordVars>>
NotRetry == <<gidVars, purgeVars, catVars, ingestVars, appendVars, recalcVars, byRowsVars, statsVars, pipeVars, storeVars, preVars, lifeVars, fqVars, ordVars>>
NotByRows == <<gidVars, purgeVars, catVars, ingestVars, appendVars, retryVars, recalcVars, statsVars, pipeVars, storeVars, preVars, lifeVars, fqVars, ordVars>>
NotStats == <<gidVars, purgeVars, catVars, ingestVars, appendVars, retryVars, recalcVars, byRowsVars, pipeVars, storeVars, preVars, lifeVars, fqVars, ordVars>>
NotPipe == <<gidVars, purgeVars, catVars, ingestVars, appendVars, retryVars, recalcVars, byRowsVars, statsVars, storeVars, preVars, lifeVars, fqVars, ordVars>>
NotStore == <<gidVars, purgeVars, catVars, ingestVars, appendVars, retryVars, recalcVars, byRowsVars, statsVars, pipeVars, preVars, lifeVars, fqVars, ordVars>>
NotPre == <<gidVars, purgeVars, catVars, ingestVars, appendVars, retryVars, recalcVars, byRowsVars, statsVars, pipeVars, storeVars, lifeVars, fqVars, ordVars>>
\* of the ingest variables the threads write m_running and m_shutdown only
lifeIngRest == <<m_queue, m_fullQueues, m_resendQueues, m_data, m_failCnt, ingPersisted,
                 ingDiscarded, ingNext, prodPc, prodFull, ingPc, ingStats>>
NotLife == <<gidVars, purgeVars, catVars, lifeIngRest, appendVars, retryVars, recalcVars, byRowsVars, statsVars, pipeVars, storeVars, preVars, fqVars, ordVars>>
NotFq == <<gidVars, purgeVars, catVars, ingestVars, appendVars, retryVars, recalcVars, byRowsVars, statsVars, pipeVars, storeVars, preVars, lifeVars, ordVars>>
NotOrd == <<gidVars, purgeVars, catVars, ingestVars, appendVars, retryVars, recalcVars, byRowsVars, statsVars, pipeVars, storeVars, preVars, lifeVars, fqVars>>

(***************************************************************************)
(* ReadingsCatalogue: the global id                                        *)
(***************************************************************************)
GidTableIds == 1 .. Cardinality(Assets)

AllRowIds(tables) == UNION {tables[t] : t \in DOMAIN tables}

\* ReadingsCatalogue::getMaxReadingsId over an asset -> table id map
GidMaxTable(cat) == SetMax({0} \cup {cat[a] : a \in DOMAIN cat})

\* sqlite's max(id) over one table; sqlite3_column_int reads NULL as 0
SqlMaxId(rows) == IF rows = {} THEN 0 ELSE SetMax(rows)

\* the database file that holds configuration_readings, the catalogue table
\* and readings_1
DB_READINGS == 1

\* the database file a readings table is made in: getReadingReference gives
\* the tables of a file out one by one and goes to a new file when none is
\* left
GidDbOfTable(t) == ((t - 1) \div ReadingsAllocate) + 1

\* ReadingsCatalogue::calculateGlobalId: max(id) over the UNION of the per
\* table max(id) queries, one per catalogue entry (readings_1 alone when the
\* catalogue is empty), plus one.  A NULL max (all tables empty) reads as 0.
\* Every table is named in the schema DB_READINGS: with a table of another
\* database file in the catalogue the statement cannot be prepared and the
\* function returns false.
calculateGlobalId(cat, tables) ==
    LET used == {cat[a] : a \in {x \in DOMAIN cat : cat[x] # 0}}
        queried == IF used = {} THEN {1} ELSE used
        maxes == {tables[t] : t \in queried} \ {{}}
    IN  IF \E t \in queried : GidDbOfTable(t) # DB_READINGS
        THEN 0
        ELSE (IF maxes = {} THEN 0 ELSE SetMax({SetMax(r) : r \in maxes})) + 1

\* ReadingsCatalogue::evaluateGlobalId, first half: read the stored record
\* (insert 1 when there is none) and recompute only when it reads -1.
\* The result is the adopted m_globalId and the record left in the table.
evaluateGlobalIdRead(stored, cat, tables) ==
    IF stored = <<>>
    THEN [gid |-> 1, stored |-> <<1>>]
    ELSE [gid |-> IF stored[1] = -1 THEN calculateGlobalId(cat, tables) ELSE stored[1],
          stored |-> stored]

\* ReadingsCatalogue::evaluateGlobalId, second half:
\* UPDATE configuration_readings SET global_id=-1
evaluateGlobalIdMark(stored) == <<-1>>

\* ReadingsCatalogue::storeGlobalId builds the statement
\*   "UPDATE ... SET global_id=-" + to_string(m_globalId)
\* For m_globalId >= 0 this stores the negated value; for a negative
\* m_globalId the text "--<n>" starts an SQL comment, the statement is
\* incomplete, SQLexec fails and the record is left as it was.
storeGlobalId(stored, gid) ==
    IF gid >= 0 THEN <<0 - gid>> ELSE stored

\* ReadingsCatalogue::getGlobalId: return the id and advance it
getGlobalId(gid) == [id |-> gid, next |-> gid + 1]

GidInit ==
    /\ svc = "down"
    /\ m_globalId = 0
    /\ curLast = <<>>
    /\ prevLast = <<>>
    /\ prevStop = "fresh"
    /\ bootStored = <<>>
    /\ bootMax = 0
    /\ boots = 0
    \* a fresh database, or a database left by a crashed service: the record
    \* reads -1 and asset "A" has rows up to some id in readings_1
    /\ \/ /\ configuration_readings = <<>>
          /\ gidCatalogue = [a \in Assets |-> 0]
          /\ gidTables = [t \in GidTableIds |-> {}]
       \/ /\ configuration_readings = <<-1>>
          /\ gidCatalogue = [a \in Assets |-> IF a = "A" THEN 1 ELSE 0]
          /\ \E n \in 1 .. 2 : gidTables = [t \in GidTableIds |-> IF t = 1 THEN 1 .. n ELSE {}]

\* service start: evaluateGlobalId up to the adoption of m_globalId
BootRead ==
    /\ svc = "down"
    /\ boots < MaxBoots
    /\ boots' = boots + 1
    /\ LET r == evaluateGlobalIdRead(configuration_readings, gidCatalogue, gidTables)
       IN  /\ m_globalId' = r.gid
           /\ configuration_readings' = r.stored
    /\ bootStored' = configuration_readings
    /\ bootMax' = SqlMaxId(AllRowIds(gidTables))
    /\ curLast' = <<>>
    /\ svc' = "booting"
    /\ UNCHANGED <<gidCatalogue, gidTables, prevLast, prevStop, NotGid>>

\* service start: evaluateGlobalId marks the record while the service runs
BootMark ==
    /\ svc = "booting"
    /\ configuration_readings' = evaluateGlobalIdMark(configuration_readings)
    /\ svc' = "up"
    /\ UNCHANGED <<m_globalId, gidCatalogue, gidTables, curLast, prevLast, prevStop,
                   bootStored, bootMax, boots, NotGid>>

\* one reading of asset a is appended: its table is resolved (allocated at
\* getMaxReadingsId()+1 on first sight), the next global id is bound, and the
\* row is inserted unless the id is already a key of that table
GidInsert(a) ==
    /\ svc = "up"
    /\ m_globalId < MaxGlobalId
    /\ LET t == IF gidCatalogue[a] # 0 THEN gidCatalogue[a] ELSE GidMaxTable(gidCatalogue) + 1
           g == getGlobalId(m_globalId)
       IN  /\ gidCatalogue' = [gidCatalogue EXCEPT ![a] = t]
           /\ m_globalId' = g.next
           /\ curLast' = <<g.id>>
           /\ gidTables' = [gidTables EXCEPT ![t] = @ \cup {g.id}]
    /\ UNCHANGED <<configuration_readings, svc, prevLast, prevStop, bootStored, bootMax, boots,
                   NotGid>>

\* graceful shutdown: storeGlobalId writes the record, the process exits
GidShutdown ==
    /\ svc = "up"
    /\ configuration_readings' = storeGlobalId(configuration_readings, m_globalId)
    /\ svc' = "down"
    /\ prevStop' = "graceful"
    /\ prevLast' = curLast
    /\ m_globalId' = 0
    /\ UNCHANGED <<gidCatalogue, gidTables, curLast, bootStored, bootMax, boots, NotGid>>

\* the process dies without storeGlobalId
GidCrash ==
    /\ svc \in {"booting", "up"}
    /\ svc' = "down"
    /\ prevStop' = IF svc = "up" THEN "crash" ELSE "bootcrash"
    /\ prevLast' = curLast
    /\ m_globalId' = 0
    /\ UNCHANGED <<configuration_readings, gidCatalogue, gidTables, curLast,
                   bootStored, bootMax, boots, NotGid>>

GidNext ==
    \/ BootRead
    \/ BootMark
    \/ \E a \in Assets : GidInsert(a)
    \/ GidShutdown
    \/ GidCrash

(***************************************************************************)
(* Connection::purgeReadings                                               *)
(*                                                                         *)
(* The table readings_1 is kept as ascending runs of rows: the run         *)
(* [lo, hi, age] stands for the rows with rowid lo..hi, each with a        *)
(* user_ts `age` seconds before now.  Statements are taken to succeed.     *)
(***************************************************************************)
\* user_ts of the rows, as seconds before now
RowAges == {100, 7200}

\* the age argument of purgeReadings, in hours
PurgeAges == {0, 1}

\* measured wall time of one DELETE block, in microseconds
BlockTimes == {20000, 70000, 300000}

Min2(a, b) == IF a < b THEN a ELSE b

Max2(a, b) == IF a > b THEN a ELSE b

RowsOf(tbl) ==
    UNION {{[id |-> i, age |-> tbl[k].age] : i \in tbl[k].lo .. tbl[k].hi} : k \in DOMAIN tbl}

RECURSIVE MkTbl(_, _)
MkTbl(ids, agef) ==
    IF ids = {} THEN <<>>
    ELSE LET i == SetMin(ids)
         IN  <<[lo |-> i, hi |-> i, age |-> agef[i]]>> \o MkTbl(ids \ {i}, agef)

\* select max(rowid) / min(rowid): rowidCallback leaves 0 for an empty table
TblMax(tbl) == IF tbl = <<>> THEN 0 ELSE tbl[Len(tbl)].hi

TblMin(tbl) == IF tbl = <<>> THEN 0 ELSE tbl[1].lo

\* SELECT (now - MIN(user_ts)) / 360 ... where rowid <= rowidLimit
OldestAgeBy360(tbl) ==
    IF tbl = <<>> THEN 0 ELSE SetMax({tbl[k].age : k \in DOMAIN tbl}) \div 360

RowExists(tbl, m) == \E k \in DOMAIN tbl : tbl[k].lo <= m /\ m <= tbl[k].hi

\* select id ... where rowid = m AND user_ts < datetime('now', '-<age> hours')
\* finds a row (midRowId # 0)
RowOlder(tbl, m, age) ==
    \E k \in DOMAIN tbl : tbl[k].lo <= m /\ m <= tbl[k].hi /\ tbl[k].age > 3600 * age

\* DELETE FROM readings_1 WHERE rowid <= x
DeleteUpTo(tbl, x) ==
    LET keep == SelectSeq(tbl, LAMBDA s : s.hi > x)
    IN  [k \in DOMAIN keep |-> [keep[k] EXCEPT !.lo = IF @ > x THEN @ ELSE x + 1]]

\* sqlite3_changes after that DELETE
RECURSIVE CountUpTo(_, _)
CountUpTo(tbl, x) ==
    IF tbl = <<>> THEN 0
    ELSE (IF tbl[1].lo > x THEN 0 ELSE Min2(tbl[1].hi, x) - tbl[1].lo + 1)
         + CountUpTo(Tail(tbl), x)

\* the binary search of purgeReadings for the rowid limit; m is the previous
\* middle, the loop stops when the middle does not move
RECURSIVE BinarySearch(_, _, _, _, _)
BinarySearch(tbl, age, l, r, m) ==
    IF l > r THEN m
    ELSE LET mid == l + (r - l) \div 2
         IN  IF mid = m THEN m
             ELSE IF RowOlder(tbl, mid, age)
                  THEN BinarySearch(tbl, age, mid + 1, r, mid)
                  ELSE BinarySearch(tbl, age, l, mid - 1, mid - 1)

\* the right end the search starts from
SearchRight(flags, sent, rowidLimit, l) ==
    Max2(IF flags % 2 = 1 /\ sent # 0 THEN Min2(sent, rowidLimit) ELSE rowidLimit, l)

RECURSIVE Pow2(_)
Pow2(n) == IF n = 0 THEN 1 ELSE 2 * Pow2(n - 1)

RECURSIVE Log2(_)
Log2(n) == IF n < 2 THEN 0 ELSE 1 + Log2(n \div 2)

\* n more bits of the quotient r / d, after the bits in acc
RECURSIVE DivBits(_, _, _, _)
DivBits(r, d, n, acc) ==
    IF n = 0 THEN [q |-> acc, r |-> r]
    ELSE DivBits((2 * r) % d, d, n - 1, 2 * acc + (IF 2 * r >= d THEN 1 ELSE 0))

\* (float)num / (float)den for a quotient in [0.5, 2]: the float nearest to
\* the quotient (ties to even), as m / 2^bits with a mantissa m of 24 bits
FloatDiv(num, den) ==
    LET bits == IF num >= den THEN 23 ELSE 24
        d == DivBits(num % den, den, bits, num \div den)
        up == 2 * d.r > den \/ (2 * d.r = den /\ d.q % 2 = 1)
    IN  [m |-> d.q + (IF up THEN 1 ELSE 0), bits |-> bits]

\* (int)((float)size * ratio): the product is rounded to a float of 24 bits
\* and then truncated; the rounding reaches the next integer when the
\* product is within half a unit in the last place of it
FloatMulTrunc(size, ratio) ==
    LET lo == size * (ratio.m % 4096)
        a == (size * (ratio.m \div 4096)) + (lo \div 4096)
        sh == Pow2(ratio.bits - 12)
        i == a \div sh
        frac == ((a % sh) * 4096) + (lo % 4096)
        one == Pow2(ratio.bits)
        halfUlp == Pow2((ratio.bits + Log2(i)) - 24)
    IN  IF frac > 0 /\ one - frac <= halfUlp THEN i + 1 ELSE i

\* float ratio = (float)TARGET_PURGE_BLOCK_DEL_TIME / (float)avg, held in
\* [0.5, 2.0]; purgeBlockSize = (float)purgeBlockSize * ratio
ScaleBlockSize(size, avg) ==
    IF 2 * avg <= TARGET_PURGE_BLOCK_DEL_TIME THEN size * 2
    ELSE IF avg >= 2 * TARGET_PURGE_BLOCK_DEL_TIME THEN size \div 2
    ELSE FloatMulTrunc(size, FloatDiv(TARGET_PURGE_BLOCK_DEL_TIME, avg))

\* the weighted average of the per block time at a recalculation
BlockTimeAvg(prevTotTime, prevBlocks, totTime, blocks) ==
    LET prevAvg == prevTotTime \div (IF prevBlocks # 0 THEN prevBlocks ELSE 1)
        currAvg == (totTime - prevTotTime) \div (blocks - prevBlocks)
    IN  ((IF prevAvg # 0 THEN prevAvg ELSE currAvg) * 5 + currAvg * 5) \div 10

Abs(x) == IF x < 0 THEN 0 - x ELSE x

\* if (deviation > TARGET_PURGE_BLOCK_DEL_TIME/10)
NeedsScaling(avg) ==
    Abs(avg - TARGET_PURGE_BLOCK_DEL_TIME) > TARGET_PURGE_BLOCK_DEL_TIME \div 10

NoResult == [removed |-> 0, unsentPurged |-> 0, unsentRetained |-> 0, readings |-> 0]

PgIdle ==
    [age |-> 0, flags |-> 0, sent |-> 0, rowidLimit |-> 0, rowidMin |-> 0,
     maxrowidLimit |-> 0, minrowidLimit |-> 0, unsentPurged |-> 0, blocks |-> 0,
     totTime |-> 0, prevBlocks |-> 0, prevTotTime |-> 0, deletedRows |-> 0, avg |-> 0,
     usecs |-> 0]

NoCall ==
    [returned |-> FALSE, age |-> 0, flags |-> 0, sent |-> 0, tbl0 |-> <<>>,
     ret |-> 0, result |-> NoResult]

PurgeInit ==
    /\ purgeBlockSize = PURGE_DELETE_BLOCK_SIZE
    /\ m_writeAccessOngoing = 0
    /\ writersActive = 0
    /\ writeCalls = 0
    /\ pcPurge = "idle"
    /\ pg = PgIdle
    /\ purgeCall = NoCall
    /\ \/ \E ids \in SUBSET (1 .. MaxRow) : \E agef \in [1 .. MaxRow -> RowAges] :
             readings_1 = MkTbl(ids, agef)
       \/ readings_1 = <<[lo |-> 1, hi |-> BigRows, age |-> 7200]>>
       \/ readings_1 = <<[lo |-> 1, hi |-> BigRows - 10, age |-> 7200],
                         [lo |-> BigRows - 9, hi |-> BigRows, age |-> 100]>>
    /\ nextRowId = TblMax(readings_1) + 1

\* purgeReadings returns before the delete loop
PurgeReturn(age, flags, sent, ret, result) ==
    /\ pcPurge' = "idle"
    /\ pg' = PgIdle
    /\ purgeCall' = [returned |-> TRUE, age |-> age, flags |-> flags, sent |-> sent,
                     tbl0 |-> purgeCall.tbl0, ret |-> ret, result |-> result]

\* purgeReadings(age, flags, sent) from its entry to the wait for the writers:
\* the rowid snapshot, the age taken from the data when age = 0, the binary
\* search and the count of unsent rows.  lastPurgedId is read uninitialised
\* when no row has the rowid the search ended on.
PurgeStart(age, flags, sent) ==
    /\ pcPurge = "idle"
    /\ LET maxrowid == TblMax(readings_1)
           minrowid == TblMin(readings_1)
           age1 == IF age = 0 THEN OldestAgeBy360(readings_1) ELSE age
           l == minrowid
           r == SearchRight(flags, sent, maxrowid, l)
           m == BinarySearch(readings_1, age1, l, r, l)
       IN  IF l = r \/ m = minrowid
           THEN /\ pcPurge' = "idle"
                /\ pg' = PgIdle
                /\ purgeCall' = [returned |-> TRUE, age |-> age, flags |-> flags,
                                 sent |-> sent, tbl0 |-> readings_1, ret |-> 0,
                                 result |-> NoResult]
           ELSE /\ pcPurge' = "wait"
                /\ purgeCall' = [returned |-> FALSE, age |-> age, flags |-> flags,
                                 sent |-> sent, tbl0 |-> readings_1, ret |-> 0,
                                 result |-> NoResult]
                /\ \E lastPurgedId \in (IF RowExists(readings_1, m) THEN {m} ELSE {0, sent + 1}) :
                      pg' = [PgIdle EXCEPT
                               !.age = age1, !.flags = flags, !.sent = sent,
                               !.rowidLimit = m, !.rowidMin = minrowid,
                               !.maxrowidLimit = maxrowid, !.minrowidLimit = minrowid,
                               !.unsentPurged =
                                   IF flags % 2 = 0 /\ sent # 0 /\ lastPurgedId > sent
                                   THEN m - sent ELSE 0]
    /\ UNCHANGED <<purgeBlockSize, m_writeAccessOngoing, writersActive, readings_1,
                   nextRowId, writeCalls, NotPurge>>

\* while (m_writeAccessOngoing) sleep: the worker goes on once the counter is 0
PurgeWait ==
    /\ pcPurge = "wait"
    /\ m_writeAccessOngoing = 0
    /\ pcPurge' = "loop"
    /\ UNCHANGED <<purgeBlockSize, m_writeAccessOngoing, writersActive, readings_1,
                   nextRowId, writeCalls, pg, purgeCall, NotPurge>>

\* one pass of the delete loop: the DELETE of a block that took usecs, and at
\* every RECALC_PURGE_BLOCK_SIZE_NUM_BLOCKS-th block the averages.  The time
\* of a block is taken to be steady between two recalculations.
PurgeBlock(usecs) ==
    /\ pcPurge = "loop"
    /\ pg.rowidMin < pg.rowidLimit
    /\ pg.blocks % RECALC_PURGE_BLOCK_SIZE_NUM_BLOCKS = 0 \/ usecs = pg.usecs
    /\ LET blocks == pg.blocks + 1
           rowidMin == Min2(pg.rowidMin + purgeBlockSize, pg.rowidLimit)
           totTime == pg.totTime + usecs
           recalc == blocks % RECALC_PURGE_BLOCK_SIZE_NUM_BLOCKS = 0
           avg == BlockTimeAvg(pg.prevTotTime, pg.prevBlocks, totTime, blocks)
       IN  /\ readings_1' = DeleteUpTo(readings_1, rowidMin)
           /\ pg' = [pg EXCEPT
                       !.blocks = blocks, !.rowidMin = rowidMin, !.totTime = totTime,
                       !.usecs = usecs,
                       !.deletedRows = @ + CountUpTo(readings_1, rowidMin),
                       !.prevBlocks = IF recalc THEN blocks ELSE @,
                       !.prevTotTime = IF recalc THEN totTime ELSE @,
                       !.avg = IF recalc THEN avg ELSE @]
           /\ pcPurge' = IF recalc /\ NeedsScaling(avg) THEN "scale" ELSE "loop"
    /\ UNCHANGED <<purgeBlockSize, m_writeAccessOngoing, writersActive, nextRowId,
                   writeCalls, purgeCall, NotPurge>>

\* purgeBlockSize = (float)purgeBlockSize * ratio
PurgeScale ==
    /\ pcPurge = "scale"
    /\ purgeBlockSize' = ScaleBlockSize(purgeBlockSize, pg.avg)
    /\ pcPurge' = "granularity"
    /\ UNCHANGED <<m_writeAccessOngoing, writersActive, readings_1, nextRowId, writeCalls,
                   pg, purgeCall, NotPurge>>

\* purgeBlockSize = purgeBlockSize / PURGE_BLOCK_SZ_GRANULARITY * PURGE_BLOCK_SZ_GRANULARITY
PurgeGranularity ==
    /\ pcPurge = "granularity"
    /\ purgeBlockSize' =
           (purgeBlockSize \div PURGE_BLOCK_SZ_GRANULARITY) * PURGE_BLOCK_SZ_GRANULARITY
    /\ pcPurge' = "clampMin"
    /\ UNCHANGED <<m_writeAccessOngoing, writersActive, readings_1, nextRowId, writeCalls,
                   pg, purgeCall, NotPurge>>

\* if (purgeBlockSize < MIN_PURGE_DELETE_BLOCK_SIZE) ...
PurgeClampMin ==
    /\ pcPurge = "clampMin"
    /\ purgeBlockSize' = Max2(purgeBlockSize, MIN_PURGE_DELETE_BLOCK_SIZE)
    /\ pcPurge' = "clampMax"
    /\ UNCHANGED <<m_writeAccessOngoing, writersActive, readings_1, nextRowId, writeCalls,
                   pg, purgeCall, NotPurge>>

\* if (purgeBlockSize > MAX_PURGE_DELETE_BLOCK_SIZE) ...
PurgeClampMax ==
    /\ pcPurge = "clampMax"
    /\ purgeBlockSize' = Min2(purgeBlockSize, MAX_PURGE_DELETE_BLOCK_SIZE)
    /\ pcPurge' = "loop"
    /\ UNCHANGED <<m_writeAccessOngoing, writersActive, readings_1, nextRowId, writeCalls,
                   pg, purgeCall, NotPurge>>

\* The recalculation on its own: purgeReadings is at a block whose number is
\* a multiple of RECALC_PURGE_BLOCK_SIZE_NUM_BLOCKS, with the block size the
\* earlier recalculations have left and the average it has computed
RecalcSizes == {PURGE_BLOCK_SZ_GRANULARITY * k :
                   k \in (MIN_PURGE_DELETE_BLOCK_SIZE \div PURGE_BLOCK_SZ_GRANULARITY)
                           .. (MAX_PURGE_DELETE_BLOCK_SIZE \div PURGE_BLOCK_SZ_GRANULARITY)}

RecalcAvgs == {20000, 50400, 54000, 65000, 70000, 77000, 77001, 100000, 300000}

RecalcInit ==
    /\ \E size \in RecalcSizes, avg \in RecalcAvgs :
          /\ purgeBlockSize = size
          /\ recalcOld = size
          /\ pg = [PgIdle EXCEPT !.blocks = RECALC_PURGE_BLOCK_SIZE_NUM_BLOCKS,
                                 !.prevBlocks = RECALC_PURGE_BLOCK_SIZE_NUM_BLOCKS,
                                 !.totTime = RECALC_PURGE_BLOCK_SIZE_NUM_BLOCKS * avg,
                                 !.prevTotTime = RECALC_PURGE_BLOCK_SIZE_NUM_BLOCKS * avg,
                                 !.usecs = avg,
                                 !.avg = avg]
          /\ pcPurge = IF NeedsScaling(avg) THEN "scale" ELSE "loop"
    /\ m_writeAccessOngoing = 0
    /\ writersActive = 0
    /\ writeCalls = 0
    /\ purgeCall = NoCall
    /\ readings_1 = <<>>
    /\ nextRowId = 1

RecalcNext ==
    \/ PurgeScale
    \/ PurgeGranularity
    \/ PurgeClampMin
    \/ PurgeClampMax

\* the loop is over: the result is put together and the call returns
PurgeFinish ==
    /\ pcPurge = "loop"
    /\ ~(pg.rowidMin < pg.rowidLimit)
    /\ PurgeReturn(purgeCall.age, pg.flags, pg.sent, pg.deletedRows,
                   [removed |-> pg.deletedRows,
                    unsentPurged |-> IF pg.sent = 0 THEN pg.deletedRows ELSE pg.unsentPurged,
                    unsentRetained |-> pg.maxrowidLimit - pg.rowidLimit,
                    readings |-> pg.maxrowidLimit + 1 - pg.minrowidLimit - pg.deletedRows])
    /\ UNCHANGED <<purgeBlockSize, m_writeAccessOngoing, writersActive, readings_1,
                   nextRowId, writeCalls, NotPurge>>

\* another connection enters appendReadings: m_writeAccessOngoing.fetch_add(1)
PurgeWriterBegin ==
    /\ writeCalls < MaxWriteCalls
    /\ writeCalls' = writeCalls + 1
    /\ writersActive' = writersActive + 1
    /\ m_writeAccessOngoing' = m_writeAccessOngoing + 1
    /\ UNCHANGED <<purgeBlockSize, readings_1, nextRowId, pcPurge, pg, purgeCall, NotPurge>>

\* that appendReadings inserts a row, commits and leaves: fetch_sub(1)
PurgeWriterCommit(age) ==
    /\ writersActive > 0
    /\ writersActive' = writersActive - 1
    /\ m_writeAccessOngoing' = m_writeAccessOngoing - 1
    /\ readings_1' = Append(readings_1, [lo |-> nextRowId, hi |-> nextRowId, age |-> age])
    /\ nextRowId' = nextRowId + 1
    /\ UNCHANGED <<purgeBlockSize, writeCalls, pcPurge, pg, purgeCall, NotPurge>>

\* that appendReadings fails on an INSERT: ROLLBACK and return -1, past the
\* fetch_sub
PurgeWriterRollback ==
    /\ writersActive > 0
    /\ writersActive' = writersActive - 1
    /\ UNCHANGED <<purgeBlockSize, m_writeAccessOngoing, readings_1, nextRowId, writeCalls,
                   pcPurge, pg, purgeCall, NotPurge>>

PurgeNext ==
    \/ \E age \in PurgeAges, flags \in {0, 1}, sent \in 0 .. MaxRow + 1 :
          PurgeStart(age, flags, sent)
    \/ PurgeWait
    \/ \E usecs \in BlockTimes : PurgeBlock(usecs)
    \/ PurgeScale
    \/ PurgeGranularity
    \/ PurgeClampMin
    \/ PurgeClampMax
    \/ PurgeFinish
    \/ PurgeWriterBegin
    \/ \E age \in RowAges : PurgeWriterCommit(age)
    \/ PurgeWriterRollback

(***************************************************************************)
(* ReadingsCatalogue::getReadingReference, called by concurrent writers    *)
(*                                                                         *)
(* The first lookup runs outside m_mutexAssetReadingCatalogue and so races *)
(* with the insert another writer makes under it: such a lookup may miss   *)
(* an entry, and then takes the locked path.                               *)
(***************************************************************************)
CatAssets == {"A", "B", "C"}

CatWriters == {1, 2}

\* m_AssetReadingCatalogue.find(asset_code): <<>> for end()
CatalogueFind(cat, a) == cat[a]

\* the second find, made under the mutex
SlowPathFind_Skipped(cat, a) == <<>>

SlowPathFind(cat, a) == cat[a]

\* m_AssetReadingCatalogue.insert: an existing key keeps its value
CatalogueInsert(cat, a, item) == IF cat[a] = <<>> THEN [cat EXCEPT ![a] = item] ELSE cat

getMaxReadingsId_None(cat) == 0

getMaxReadingsId_Skip(cat) ==
    SetMax({0} \cup {cat[a][1] : a \in {x \in DOMAIN cat : cat[x] # <<>>}}) + 1

getMaxReadingsId(cat) ==
    SetMax({0} \cup {cat[a][1] : a \in {x \in DOMAIN cat : cat[x] # <<>>}})

isReadingAvailable(avail) == ~(avail <= 0)

\* createReadingsTables(dbId, idStartFrom, nTables): the tables it makes
createReadingsTables(dbId, idStartFrom, nTables) ==
    {<<idStartFrom + readingsIdx, dbId>> : readingsIdx \in 0 .. nTables - 1}

CatInit ==
    /\ m_dbId = 1
    /\ m_mutexAssetReadingCatalogue = 0
    /\ catPc = [w \in CatWriters |-> "idle"]
    /\ catAsset = [w \in CatWriters |-> "A"]
    /\ catReadingsId = [w \in CatWriters |-> <<0, "none">>]
    /\ catReturned = [a \in CatAssets |-> {}]
    /\ catPaths = [a \in CatAssets |-> {}]
    /\ catCreated = {}
    /\ catTables = {<<t, 1>> : t \in 1 .. ReadingsAllocate}
    /\ refCalls = 0
    /\ \/ /\ m_AssetReadingCatalogue = [a \in CatAssets |-> <<>>]
          /\ asset_reading_catalogue = {}
          /\ m_nReadingsAvailable = ReadingsAllocate
       \/ /\ m_AssetReadingCatalogue = [a \in CatAssets |-> IF a = "A" THEN <<1, 1>> ELSE <<>>]
          /\ asset_reading_catalogue = {<<1, 1, "A">>}
          /\ m_nReadingsAvailable = ReadingsAllocate - 1

\* the call returns readingsId
CatReturn(w, readingsId, path) ==
    /\ catPc' = [catPc EXCEPT ![w] = "idle"]
    /\ catReturned' = [catReturned EXCEPT ![catAsset[w]] = @ \cup {readingsId}]
    /\ catPaths' = [catPaths EXCEPT ![catAsset[w]] = @ \cup {path}]
    /\ catAsset' = [catAsset EXCEPT ![w] = "A"]
    /\ catReadingsId' = [catReadingsId EXCEPT ![w] = <<0, "none">>]

\* a writer enters getReadingReference(asset_code)
CatCall(w, a) ==
    /\ catPc[w] = "idle"
    /\ refCalls < MaxRefCalls
    /\ refCalls' = refCalls + 1
    /\ catPc' = [catPc EXCEPT ![w] = "find"]
    /\ catAsset' = [catAsset EXCEPT ![w] = a]
    /\ UNCHANGED <<m_AssetReadingCatalogue, asset_reading_catalogue, m_nReadingsAvailable,
                   m_dbId, m_mutexAssetReadingCatalogue, catReadingsId, catReturned,
                   catPaths, catCreated, catTables, NotCat>>

\* the lookup outside the mutex finds the asset: readingsId = item->second.first
CatFastHit(w) ==
    /\ catPc[w] = "find"
    /\ CatalogueFind(m_AssetReadingCatalogue, catAsset[w]) # <<>>
    /\ CatReturn(w, CatalogueFind(m_AssetReadingCatalogue, catAsset[w])[1], "fast")
    /\ UNCHANGED <<m_AssetReadingCatalogue, asset_reading_catalogue, m_nReadingsAvailable,
                   m_dbId, m_mutexAssetReadingCatalogue, catCreated, catTables, refCalls, NotCat>>

\* the lookup outside the mutex ends at end(): the asset is not there, or the
\* lookup ran while another writer was changing the map
CatFastMiss(w) ==
    /\ catPc[w] = "find"
    /\ \/ CatalogueFind(m_AssetReadingCatalogue, catAsset[w]) = <<>>
       \/ m_mutexAssetReadingCatalogue \in CatWriters \ {w}
    /\ catPc' = [catPc EXCEPT ![w] = "lock"]
    /\ UNCHANGED <<m_AssetReadingCatalogue, asset_reading_catalogue, m_nReadingsAvailable,
                   m_dbId, m_mutexAssetReadingCatalogue, catAsset, catReadingsId,
                   catReturned, catPaths, catCreated, catTables, refCalls, NotCat>>

\* m_mutexAssetReadingCatalogue.lock()
CatLock(w) ==
    /\ catPc[w] = "lock"
    /\ m_mutexAssetReadingCatalogue = 0
    /\ m_mutexAssetReadingCatalogue' = w
    /\ catPc' = [catPc EXCEPT ![w] = "locked"]
    /\ UNCHANGED <<m_AssetReadingCatalogue, asset_reading_catalogue, m_nReadingsAvailable,
                   m_dbId, catAsset, catReadingsId, catReturned, catPaths, catCreated, catTables,
                   refCalls, NotCat>>

\* under the mutex the asset is found by the second lookup
CatRecheckHit(w) ==
    /\ catPc[w] = "locked"
    /\ SlowPathFind(m_AssetReadingCatalogue, catAsset[w]) # <<>>
    /\ catReadingsId' = [catReadingsId EXCEPT ![w] = <<m_AssetReadingCatalogue[catAsset[w]][1], "recheck">>]
    /\ catPc' = [catPc EXCEPT ![w] = "unlock"]
    /\ UNCHANGED <<m_AssetReadingCatalogue, asset_reading_catalogue, m_nReadingsAvailable,
                   m_dbId, m_mutexAssetReadingCatalogue, catAsset, catReturned, catPaths,
                   catCreated, catTables, refCalls, NotCat>>

\* under the mutex the asset is new: createReadingsTablesNewDB when no table
\* is free (it may fail after m_dbId++), readingsId = getMaxReadingsId() + 1,
\* the map insert, the INSERT into asset_reading_catalogue (a failure is only
\* logged) and allocateReadingAvailable
CatAllocate(w, newDbOk, tablesOk, insertOk) ==
    /\ catPc[w] = "locked"
    /\ SlowPathFind(m_AssetReadingCatalogue, catAsset[w]) = <<>>
    /\ LET expand == ~isReadingAvailable(m_nReadingsAvailable)
           dbId == IF expand THEN m_dbId + 1 ELSE m_dbId
           avail == IF expand /\ newDbOk THEN ReadingsAllocate ELSE m_nReadingsAvailable
           readingsId == getMaxReadingsId(m_AssetReadingCatalogue) + 1
       IN  /\ expand \/ newDbOk
           /\ (expand /\ newDbOk) \/ tablesOk
           /\ m_dbId' = dbId
           /\ catTables' = IF expand /\ newDbOk /\ tablesOk
                           THEN catTables \cup createReadingsTables(dbId, readingsId,
                                                                    ReadingsAllocate)
                           ELSE catTables
           /\ m_AssetReadingCatalogue' =
                  CatalogueInsert(m_AssetReadingCatalogue, catAsset[w], <<readingsId, dbId>>)
           /\ asset_reading_catalogue' =
                  IF insertOk THEN asset_reading_catalogue \cup {<<readingsId, dbId, catAsset[w]>>}
                  ELSE asset_reading_catalogue
           /\ m_nReadingsAvailable' = avail - 1
           /\ catReadingsId' = [catReadingsId EXCEPT ![w] = <<readingsId, "alloc">>]
           /\ catCreated' = catCreated \cup {<<catAsset[w], m_AssetReadingCatalogue'[catAsset[w]]>>}
    /\ catPc' = [catPc EXCEPT ![w] = "unlock"]
    /\ UNCHANGED <<m_mutexAssetReadingCatalogue, catAsset, catReturned, catPaths,
                   refCalls, NotCat>>

\* m_mutexAssetReadingCatalogue.unlock(); return (readingsId)
CatUnlock(w) ==
    /\ catPc[w] = "unlock"
    /\ m_mutexAssetReadingCatalogue' = 0
    /\ CatReturn(w, catReadingsId[w][1], catReadingsId[w][2])
    /\ UNCHANGED <<m_AssetReadingCatalogue, asset_reading_catalogue, m_nReadingsAvailable,
                   m_dbId, catCreated, catTables, refCalls, NotCat>>

CatNext ==
    \E w \in CatWriters :
       \/ \E a \in CatAssets : CatCall(w, a)
       \/ CatFastHit(w)
       \/ CatFastMiss(w)
       \/ CatLock(w)
       \/ CatRecheckHit(w)
       \/ \E newDbOk \in BOOLEAN, tablesOk \in BOOLEAN, insertOk \in BOOLEAN :
             CatAllocate(w, newDbOk, tablesOk, insertOk)
       \/ CatUnlock(w)

(***************************************************************************)
(* Ingest: producers, the flush worker (ingestThread) and the destructor   *)
(*                                                                         *)
(* A reading is the number it was accepted as.  No filter pipeline is      *)
(* configured.  A producer is a thread of the south plugin; the destructor *)
(* starts when no producer is inside ingest.                               *)
(***************************************************************************)
Producers == {1, 2}

\* the callers of processQueue
PqOwners == {"worker", "dtor"}

IngReadings == 1 .. MaxReadings

SeqSet(q) == {q[i] : i \in DOMAIN q}

\* for (cnt = 5; cnt > 0 && q->size() > 0; cnt--) erase(q->begin())
DropFront(q) == SubSeq(q, Min2(ResendDropCount, Len(q)) + 1, Len(q))

IngestInit ==
    /\ m_queue = <<>>
    /\ m_fullQueues = <<>>
    /\ m_resendQueues = <<>>
    /\ m_data = <<>>
    /\ m_failCnt = 0
    /\ m_running = TRUE
    /\ m_shutdown = FALSE
    /\ ingPersisted = {}
    /\ ingDiscarded = {}
    /\ ingNext = 1
    /\ prodPc = [p \in Producers |-> "idle"]
    /\ prodFull = [p \in Producers |-> <<>>]
    /\ ingPc = [o \in PqOwners |-> IF o = "worker" THEN "top" ELSE "none"]
    /\ statsPendingEntries = 0
    /\ m_discardedReadings = 0
    /\ ingFails = 0
    /\ cfgPc = "idle"

\* Ingest::ingest(reading) under m_qMutex: the push, and the rotation of a
\* queue that is full or that belongs to an ingest that is not running
IngestCall(p) ==
    /\ prodPc[p] = "idle"
    /\ ingPc["dtor"] = "none"
    /\ ingNext <= MaxReadings
    /\ ingNext' = ingNext + 1
    /\ LET q == Append(m_queue, ingNext)
       IN  IF Len(q) >= QueueSizeThreshold \/ m_running = FALSE
           THEN /\ m_queue' = <<>>
                /\ prodFull' = [prodFull EXCEPT ![p] = q]
                /\ prodPc' = [prodPc EXCEPT ![p] = "push"]
           ELSE /\ m_queue' = q
                /\ UNCHANGED <<prodFull, prodPc>>
    /\ UNCHANGED <<m_fullQueues, m_resendQueues, m_data, m_failCnt, m_running, m_shutdown,
                   ingPersisted, ingDiscarded, ingPc, ingStats, NotIngest>>

\* Ingest::ingest(vec) under m_qMutex: the readings of the vector are pushed
\* one after the other, then the same rotation
IngestVector(p) ==
    /\ prodPc[p] = "idle"
    /\ ingPc["dtor"] = "none"
    /\ ingNext + VecSize - 1 <= MaxReadings
    /\ ingNext' = ingNext + VecSize
    /\ LET q == m_queue \o [i \in 1 .. VecSize |-> ingNext + i - 1]
       IN  IF Len(q) >= QueueSizeThreshold \/ m_running = FALSE
           THEN /\ m_queue' = <<>>
                /\ prodFull' = [prodFull EXCEPT ![p] = q]
                /\ prodPc' = [prodPc EXCEPT ![p] = "push"]
           ELSE /\ m_queue' = q
                /\ UNCHANGED <<prodFull, prodPc>>
    /\ UNCHANGED <<m_fullQueues, m_resendQueues, m_data, m_failCnt, m_running, m_shutdown,
                   ingPersisted, ingDiscarded, ingPc, ingStats, NotIngest>>

\* ... and under m_fqMutex: m_fullQueues.push(fullQueue)
IngestPush(p) ==
    /\ prodPc[p] = "push"
    /\ m_fullQueues' = Append(m_fullQueues, prodFull[p])
    /\ prodFull' = [prodFull EXCEPT ![p] = <<>>]
    /\ prodPc' = [prodPc EXCEPT ![p] = "idle"]
    /\ UNCHANGED <<m_queue, m_resendQueues, m_data, m_failCnt, m_running, m_shutdown,
                   ingPersisted, ingDiscarded, ingNext, ingPc, ingStats, NotIngest>>

\* ingestThread: while (!isStopping()) if (running()) { waitForQueue();
\* processQueue(); } else sleep; the wait is a timed one
WorkerTop ==
    /\ ingPc["worker"] = "top"
    /\ ingPc' = [ingPc EXCEPT !["worker"] =
                    IF m_shutdown THEN "exited" ELSE IF m_running THEN "resend" ELSE "top"]
    /\ UNCHANGED <<m_queue, m_fullQueues, m_resendQueues, m_data, m_failCnt, m_running,
                   m_shutdown, ingPersisted, ingDiscarded, ingNext, prodPc, prodFull,
                   ingStats, NotIngest>>

\* if (m_failCnt > 5), tested after m_failCnt++
ResendDrops_Early(failCnt) == failCnt >= ResendFailLimit

ResendDrops(failCnt) == failCnt > ResendFailLimit

\* processQueue, one pass of while (m_resendQueues.size() > 0): readingAppend
\* of the first resend queue succeeds (ok) or fails; logDiscardedStat counts
\* one discarded reading
PqResend(o, ok) ==
    /\ ingPc[o] = "resend"
    /\ m_resendQueues # <<>>
    /\ LET q == Head(m_resendQueues)
       IN  IF ok
           THEN /\ ingPersisted' = ingPersisted \cup SeqSet(q)
                /\ m_resendQueues' = Tail(m_resendQueues)
                /\ m_failCnt' = 0
                /\ ingFails' = 0
                /\ statsPendingEntries' = statsPendingEntries + Len(q)
                /\ UNCHANGED <<ingDiscarded, m_discardedReadings>>
           ELSE IF ResendDrops(m_failCnt + 1)
           THEN /\ ingDiscarded' = ingDiscarded \cup (SeqSet(q) \ SeqSet(DropFront(q)))
                /\ m_discardedReadings' = m_discardedReadings + (Len(q) - Len(DropFront(q)))
                /\ m_resendQueues' = IF DropFront(q) = <<>> THEN Tail(m_resendQueues)
                                     ELSE <<DropFront(q)>> \o Tail(m_resendQueues)
                /\ m_failCnt' = 0
                /\ ingFails' = 0
                /\ UNCHANGED <<ingPersisted, statsPendingEntries>>
           ELSE /\ m_failCnt' = m_failCnt + 1
                /\ ingFails' = ingFails + 1
                /\ UNCHANGED <<m_resendQueues, ingPersisted, ingDiscarded,
                               statsPendingEntries, m_discardedReadings>>
    /\ UNCHANGED <<m_queue, m_fullQueues, m_data, m_running, m_shutdown, ingNext, prodPc,
                   prodFull, ingPc, cfgPc, NotIngest>>

\* while (m_resendQueues.size() > 0) has ended
ResendLoopDone_One(resend) == Len(resend) <= 1

ResendLoopDone(resend) == Len(resend) = 0

\* the resend queue is empty: the batch to send is the oldest full queue or,
\* when there is none, the queue in use, which a new one replaces
PqTake(o) ==
    /\ ingPc[o] = "resend"
    /\ ResendLoopDone(m_resendQueues)
    /\ IF m_fullQueues = <<>>
       THEN /\ m_data' = m_queue
            /\ m_queue' = <<>>
            /\ UNCHANGED m_fullQueues
       ELSE /\ m_data' = Head(m_fullQueues)
            /\ m_fullQueues' = Tail(m_fullQueues)
            /\ UNCHANGED m_queue
    /\ ingPc' = [ingPc EXCEPT ![o] = "append"]
    /\ UNCHANGED <<m_resendQueues, m_failCnt, m_running, m_shutdown, ingPersisted,
                   ingDiscarded, ingNext, prodPc, prodFull, ingStats, NotIngest>>

\* m_resendQueues.push_back(m_data)
ResendPush_Short(resend, batch) == Append(resend, Tail(batch))

ResendPush(resend, batch) == Append(resend, batch)

\* readingAppend(*m_data) when m_data is not empty: a failed batch goes to
\* the resend queue, the readings of a stored one are counted for the
\* statistics
PqAppend(o, ok) ==
    /\ ingPc[o] = "append"
    /\ ok \/ m_data # <<>>
    /\ IF m_data = <<>>
       THEN UNCHANGED <<m_resendQueues, m_failCnt, ingPersisted, statsPendingEntries, ingFails>>
       ELSE IF ok
       THEN /\ ingPersisted' = ingPersisted \cup SeqSet(m_data)
            /\ m_failCnt' = 0
            /\ statsPendingEntries' = statsPendingEntries + Len(m_data)
            /\ UNCHANGED <<m_resendQueues, ingFails>>
       ELSE /\ m_resendQueues' = ResendPush(m_resendQueues, m_data)
            /\ m_failCnt' = 1
            /\ ingFails' = 1
            /\ UNCHANGED <<ingPersisted, statsPendingEntries>>
    /\ m_data' = <<>>
    /\ ingPc' = [ingPc EXCEPT ![o] = "loop"]
    /\ UNCHANGED <<m_queue, m_fullQueues, m_running, m_shutdown, ingDiscarded, ingNext,
                   prodPc, prodFull, m_discardedReadings, cfgPc, NotIngest>>

\* } while (!m_fullQueues.empty()); processQueue returns to its caller
PqLoop(o) ==
    /\ ingPc[o] = "loop"
    /\ ingPc' = [ingPc EXCEPT ![o] =
                    IF m_fullQueues # <<>> THEN "resend"
                    ELSE IF o = "worker" THEN "top" ELSE "stats"]
    /\ UNCHANGED <<m_queue, m_fullQueues, m_resendQueues, m_data, m_failCnt, m_running,
                   m_shutdown, ingPersisted, ingDiscarded, ingNext, prodPc, prodFull,
                   ingStats, NotIngest>>

\* ~Ingest: m_shutdown = true; m_running = false; m_cv.notify_one()
DtorStart ==
    /\ ingPc["dtor"] = "none"
    /\ \A p \in Producers : prodPc[p] = "idle"
    /\ m_shutdown' = TRUE
    /\ m_running' = FALSE
    /\ ingPc' = [ingPc EXCEPT !["dtor"] = "join"]
    /\ UNCHANGED <<m_queue, m_fullQueues, m_resendQueues, m_data, m_failCnt, ingPersisted,
                   ingDiscarded, ingNext, prodPc, prodFull, ingStats, NotIngest>>

\* m_thread->join() returns and the destructor calls processQueue()
DtorJoin ==
    /\ ingPc["dtor"] = "join"
    /\ ingPc["worker"] = "exited"
    /\ ingPc' = [ingPc EXCEPT !["dtor"] = "resend"]
    /\ UNCHANGED <<m_queue, m_fullQueues, m_resendQueues, m_data, m_failCnt, m_running,
                   m_shutdown, ingPersisted, ingDiscarded, ingNext, prodPc, prodFull,
                   ingStats, NotIngest>>

\* the rest of ~Ingest: the statistics, then delete m_queue
DtorFinish ==
    /\ ingPc["dtor"] = "stats"
    /\ m_queue' = <<>>
    /\ ingPc' = [ingPc EXCEPT !["dtor"] = "done"]
    /\ UNCHANGED <<m_fullQueues, m_resendQueues, m_data, m_failCnt, m_running, m_shutdown,
                   ingPersisted, ingDiscarded, ingNext, prodPc, prodFull, ingStats, NotIngest>>

\* Ingest::configChange for the category of the service, the pipeline has
\* changed: m_running = false and the pipeline is removed
ConfigChangeStop ==
    /\ cfgPc = "idle"
    /\ ~m_shutdown
    /\ m_running' = FALSE
    /\ cfgPc' = "load"
    /\ UNCHANGED <<m_queue, m_fullQueues, m_resendQueues, m_data, m_failCnt, m_shutdown,
                   ingPersisted, ingDiscarded, ingNext, prodPc, prodFull, ingPc,
                   statsPendingEntries, m_discardedReadings, ingFails, NotIngest>>

\* ... loadFilters has returned: m_running = true
ConfigChangeRun ==
    /\ cfgPc = "load"
    /\ m_running' = TRUE
    /\ cfgPc' = "done"
    /\ UNCHANGED <<m_queue, m_fullQueues, m_resendQueues, m_data, m_failCnt, m_shutdown,
                   ingPersisted, ingDiscarded, ingNext, prodPc, prodFull, ingPc,
                   statsPendingEntries, m_discardedReadings, ingFails, NotIngest>>

ProducerSteps == \E p \in Producers : IngestPush(p)

PqSteps(o) ==
    \/ \E ok \in BOOLEAN : PqResend(o, ok)
    \/ PqTake(o)
    \/ \E ok \in BOOLEAN : PqAppend(o, ok)
    \/ PqLoop(o)

WorkerSteps == WorkerTop \/ PqSteps("worker")

DtorSteps == DtorJoin \/ PqSteps("dtor") \/ DtorFinish

IngestNext ==
    \/ \E p \in Producers : IngestCall(p)
    \/ \E p \in Producers : IngestVector(p)
    \/ ProducerSteps
    \/ WorkerSteps
    \/ DtorStart
    \/ DtorSteps

\* the same with a reconfiguration of the filter pipeline
ReconfigNext ==
    \/ IngestNext
    \/ ConfigChangeStop
    \/ ConfigChangeRun

(***************************************************************************)
(* Connection::appendReadings: one connection, one call after the other.   *)
(* A row is <<call, index of the reading in the payload>>.  The asset      *)
(* codes are not empty.  The id of a row (getGlobalId) and the table of an   *)
(* asset (getReadingReference) are the subject of their own components.    *)
(***************************************************************************)
ApElements ==
    {[kind |-> "ok", asset |-> a] : a \in Assets}
        \cup {[kind |-> "baddate", asset |-> "A"], [kind |-> "nonobject", asset |-> "A"]}

ApBatches == UNION {[1..n -> ApElements] : n \in 1..MaxBatch}

StepResults == {"DONE", "BUSY", "LOCKED", "ERROR"}

\* ROLLBACK TRANSACTION: the rows of the open transaction are gone
RollbackTransaction_Keep(pending) == pending

RollbackTransaction(pending) == {}

\* while (retries < PREP_CMD_MAX_RETRIES && (LOCKED || BUSY))
StepAgain_Forever(n, res) == res \in {"LOCKED", "BUSY"}

StepAgain(n, res) == n < PREP_CMD_MAX_RETRIES /\ res \in {"LOCKED", "BUSY"}

NoEntry == [committed |-> {}, pending |-> {}, txn |-> FALSE]

AppendInit ==
    /\ apCommitted = {}
    /\ apPending = {}
    /\ apTxn = FALSE
    /\ apPc = "idle"
    /\ apBatch = <<>>
    /\ apIdx = 0
    /\ apRow = 0
    /\ retries = 0
    /\ readingsStmt = [a \in Assets |-> FALSE]
    /\ stmt = <<>>
    /\ lastAsset = ""
    /\ apCall = 0
    /\ apEntry = NoEntry
    /\ apReturn = <<>>
    /\ apBadDates = 0

\* return: the locals go; an early return leaves m_writeAccessOngoing as it is
ApReturns(ret, cause) ==
    /\ apReturn' = <<[ret |-> ret, cause |-> cause]>>
    /\ apPc' = "idle"
    /\ apIdx' = 0
    /\ apRow' = 0
    /\ retries' = 0
    /\ readingsStmt' = [a \in Assets |-> FALSE]
    /\ stmt' = <<>>
    /\ lastAsset' = ""

\* the payload does not parse or has no readings array: return -1 at once
ApReject ==
    /\ apPc = "idle"
    /\ apCall + 1 \in ApCalls
    /\ apCall' = apCall + 1
    /\ apBatch' = <<>>
    /\ apEntry' = [committed |-> apCommitted, pending |-> apPending, txn |-> apTxn]
    /\ ApReturns(-1, "parse")
    /\ UNCHANGED <<apCommitted, apPending, apTxn, apBadDates, m_writeAccessOngoing, NotAppend>>

\* fetch_add(1) and BEGIN TRANSACTION, whose result is not looked at: it
\* fails when a transaction is still open, and that transaction goes on
ApCall(batch) ==
    /\ apPc = "idle"
    /\ apCall + 1 \in ApCalls
    /\ apCall' = apCall + 1
    /\ apBatch' = batch
    /\ apEntry' = [committed |-> apCommitted, pending |-> apPending, txn |-> apTxn]
    /\ m_writeAccessOngoing' = m_writeAccessOngoing + 1
    /\ apTxn' = TRUE
    /\ apIdx' = 1
    /\ apRow' = 0
    /\ retries' = 0
    /\ readingsStmt' = [a \in Assets |-> FALSE]
    /\ stmt' = <<>>
    /\ lastAsset' = ""
    /\ apReturn' = <<>>
    /\ apPc' = "loop"
    /\ UNCHANGED <<apCommitted, apPending, apBadDates, NotAppend>>

\* one element of the array, up to the step loop
ApReading(prepareOk) ==
    /\ apPc = "loop"
    /\ apIdx <= Len(apBatch)
    /\ LET e == apBatch[apIdx]
           change == lastAsset # e.asset
           prepared == IF change /\ ~readingsStmt[e.asset] THEN prepareOk
                       ELSE readingsStmt[e.asset]
           newStmt == IF ~change THEN stmt
                      ELSE IF prepared THEN <<e.asset>> ELSE <<>>
       IN  IF e.kind = "nonobject"
           THEN /\ prepareOk
                /\ apPending' = RollbackTransaction(apPending)
                /\ apTxn' = FALSE
                /\ ApReturns(-1, "nonobject")
                /\ UNCHANGED <<apBadDates>>
           ELSE IF e.kind = "baddate"
           THEN /\ prepareOk
                /\ apIdx' = apIdx + 1
                /\ apBadDates' = apBadDates + 1
                /\ UNCHANGED <<apPending, apTxn, apPc, apRow, retries, readingsStmt, stmt,
                               lastAsset, apReturn>>
           ELSE /\ (prepareOk \/ (change /\ ~readingsStmt[e.asset]))
                /\ readingsStmt' = [readingsStmt EXCEPT ![e.asset] = prepared]
                /\ stmt' = newStmt
                /\ lastAsset' = e.asset
                /\ retries' = 0
                /\ IF newStmt = <<>>
                   THEN apIdx' = apIdx + 1 /\ apPc' = apPc
                   ELSE apIdx' = apIdx /\ apPc' = "step"
                /\ UNCHANGED <<apPending, apTxn, apRow, apReturn, apBadDates>>
    /\ UNCHANGED <<apCommitted, apBatch, apCall, apEntry, m_writeAccessOngoing, NotAppend>>

\* one turn of the do-while around sqlite3_step, and what follows the loop
ApStep(res) ==
    /\ apPc = "step"
    /\ LET n == IF res \in {"LOCKED", "BUSY"} THEN retries + 1 ELSE retries
       IN  IF StepAgain(n, res)
           THEN /\ retries' = n
                /\ UNCHANGED <<apPending, apTxn, apPc, apIdx, apRow, readingsStmt, stmt,
                               lastAsset, apReturn>>
           ELSE IF res = "DONE"
           THEN /\ apRow' = apRow + 1
                /\ apPending' = apPending \cup {<<apCall, apIdx>>}
                /\ apIdx' = apIdx + 1
                /\ apPc' = "loop"
                /\ retries' = n
                /\ UNCHANGED <<apTxn, readingsStmt, stmt, lastAsset, apReturn>>
           ELSE /\ apPending' = RollbackTransaction(apPending)
                /\ apTxn' = FALSE
                /\ ApReturns(-1, "insert")
    /\ UNCHANGED <<apCommitted, apBatch, apCall, apEntry, apBadDates, m_writeAccessOngoing,
                   NotAppend>>

\* END TRANSACTION, fetch_sub(1), the statements are finalized, return row
ApEnd(commitOk) ==
    /\ apPc = "loop"
    /\ apIdx > Len(apBatch)
    /\ IF commitOk
       THEN /\ apCommitted' = apCommitted \cup apPending
            /\ apPending' = {}
            /\ apTxn' = FALSE
            /\ ApReturns(apRow, "end")
       ELSE /\ ApReturns(-1, "commit")
            /\ UNCHANGED <<apCommitted, apPending, apTxn>>
    /\ m_writeAccessOngoing' = m_writeAccessOngoing - 1
    /\ UNCHANGED <<apBatch, apCall, apEntry, apBadDates, NotAppend>>

AppendNext ==
    \/ ApReject
    \/ \E batch \in ApBatches : ApCall(batch)
    \/ \E prepareOk \in BOOLEAN : ApReading(prepareOk)
    \/ \E res \in StepResults : ApStep(res)
    \/ \E commitOk \in BOOLEAN : ApEnd(commitOk)

(***************************************************************************)
(* ReadingsCatalogue::SQLexec and ReadingsCatalogue::SQLStep               *)
(***************************************************************************)
SqlFns == {"SQLexec", "SQLStep"}

SqlResults == {"OK", "DONE", "BUSY", "LOCKED", "ERROR", "CONSTRAINT"}

\* while (retries < MAX_RETRIES && (rc == SQLITE_LOCKED || rc == SQLITE_BUSY))
RetryAgain_Error(n, rc) == n < MAX_RETRIES /\ rc \in {"LOCKED", "BUSY", "ERROR"}

RetryAgain(n, rc) == n < MAX_RETRIES /\ rc \in {"LOCKED", "BUSY"}

RetryInit ==
    /\ sqlPc = "idle"
    /\ sqlFn = "SQLexec"
    /\ sqlRetries = 0
    /\ sqlRc = <<>>
    /\ sqlAttempts = 0
    /\ sqlSlept = 0
    /\ sqlReturned = <<>>

\* the call: int retries = 0, rc
RetryCall(fn) ==
    /\ sqlPc = "idle"
    /\ sqlPc' = "run"
    /\ sqlFn' = fn
    /\ sqlRetries' = 0
    /\ sqlRc' = <<>>
    /\ sqlAttempts' = 0
    /\ sqlSlept' = 0
    /\ sqlReturned' = <<>>
    /\ UNCHANGED NotRetry

\* one turn of the do-while: the statement runs, retries++, the sleep; when
\* the condition of the loop fails the function returns rc
RetryAttempt(rc) ==
    /\ sqlPc = "run"
    /\ sqlRc' = <<rc>>
    /\ sqlRetries' = sqlRetries + 1
    /\ sqlAttempts' = sqlAttempts + 1
    /\ sqlSlept' = IF rc \in {"LOCKED", "BUSY"}
                   THEN sqlSlept + (sqlRetries + 1) * RETRY_BACKOFF
                   ELSE sqlSlept
    /\ IF RetryAgain(sqlRetries + 1, rc)
       THEN UNCHANGED <<sqlPc, sqlReturned>>
       ELSE sqlPc' = "idle" /\ sqlReturned' = <<rc>>
    /\ UNCHANGED <<sqlFn, NotRetry>>

RetryNext ==
    \/ \E fn \in SqlFns : RetryCall(fn)
    \/ \E rc \in SqlResults : RetryAttempt(rc)

(***************************************************************************)
(* Connection::purgeReadingsByRows: one call on the table readings         *)
(***************************************************************************)
\* the tables the call may find: a few rows, rows with gaps, many rows
ByRowsTables ==
    {MkTbl(ids, [i \in 1 .. MaxRow |-> 0]) : ids \in SUBSET (1 .. MaxRow)}
        \cup {<<[lo |-> 1, hi |-> ByRowsStep + BigRows, age |-> 0]>>}

NoByRowsArgs == [rows |-> 0, flags |-> 0, sent |-> 0, limit |-> 0]

NoByRowsResult == [deletedRows |-> 0, unsentPurged |-> 0, numReadings |-> 0]

\* select count(rowid) from readings
TblCount(tbl) == CountUpTo(tbl, TblMax(tbl))

\* if (limit && limit > deletePoint) deletePoint = limit
LimitDeletePoint(limit, deletePoint) ==
    IF limit # 0 /\ limit > deletePoint THEN limit ELSE deletePoint

\* int deletePoint = minId + 10000; if (maxId - deletePoint < rows ||
\* deletePoint > maxId) deletePoint = maxId - rows: the difference is an int
\* and is compared as an unsigned long, so a negative one is not below rows
CeilingDeletePoint(minId, maxId, rows) ==
    LET deletePoint == minId + ByRowsStep
        diff == maxId - deletePoint
    IN  IF (diff >= 0 /\ diff < rows) \/ deletePoint > maxId
        THEN maxId - rows
        ELSE deletePoint

ByRowsInit ==
    /\ readings \in ByRowsTables
    /\ brPc = "idle"
    /\ brArgs = NoByRowsArgs
    /\ brIter = <<>>
    /\ brMaxDeleted = 0
    /\ brResult = NoByRowsResult

\* the call: limit = sent when the flag 0x01 is set
ByRowsCall(rows, flags, sent) ==
    /\ brPc = "idle"
    /\ brArgs' = [rows |-> rows, flags |-> flags, sent |-> sent,
                  limit |-> IF flags % 2 = 1 THEN sent ELSE 0]
    /\ brPc' = "loop"
    /\ UNCHANGED <<readings, brIter, brMaxDeleted, brResult, NotByRows>>

\* one pass of the do-while; a query that fails makes the call return 0
ByRowsPass(countOk) ==
    /\ brPc = "loop"
    /\ LET rowcount == TblCount(readings)
           minId == TblMin(readings)
           maxId == TblMax(readings)
           ceiling == CeilingDeletePoint(minId, maxId, brArgs.rows)
           deletePoint == LimitDeletePoint(brArgs.limit, ceiling)
           rowsAffected == CountUpTo(readings, deletePoint)
       IN  IF ~countOk
           THEN /\ brPc' = "done"
                /\ brResult' = [brResult EXCEPT !.deletedRows = 0]
                /\ UNCHANGED <<readings, brIter, brMaxDeleted>>
           ELSE IF rowcount <= brArgs.rows
           THEN /\ brPc' = "done"
                /\ UNCHANGED <<readings, brIter, brMaxDeleted, brResult>>
           ELSE /\ readings' = DeleteUpTo(readings, deletePoint)
                /\ brIter' = <<[deletePoint |-> deletePoint, ceiling |-> ceiling,
                                rowsAffected |-> rowsAffected]>>
                /\ brMaxDeleted' = IF rowsAffected = 0 THEN brMaxDeleted
                                   ELSE Min2(deletePoint, maxId)
                /\ brResult' =
                       [deletedRows |-> brResult.deletedRows + rowsAffected,
                        numReadings |-> rowcount - rowsAffected,
                        unsentPurged |->
                            IF rowsAffected = 0 THEN brResult.unsentPurged
                            ELSE IF brArgs.limit # 0 /\ brArgs.sent # 0
                            THEN deletePoint - brArgs.sent
                            ELSE IF brArgs.limit = 0
                            THEN brResult.unsentPurged + rowsAffected
                            ELSE brResult.unsentPurged]
                /\ brPc' = IF rowsAffected = 0 THEN "done" ELSE "loop"
    /\ UNCHANGED <<brArgs, NotByRows>>

ByRowsNext ==
    \/ \E rows \in 0 .. MaxRow, flags \in {0, 1}, sent \in 0 .. MaxRow + 1 :
          ByRowsCall(rows, flags, sent)
    \/ \E countOk \in BOOLEAN : ByRowsPass(countOk)

(***************************************************************************)
(* The state a component rests in under the specification of another       *)
(***************************************************************************)
GidIdle ==
    /\ svc = "down"
    /\ m_globalId = 0
    /\ curLast = <<>>
    /\ prevLast = <<>>
    /\ prevStop = "fresh"
    /\ bootStored = <<>>
    /\ bootMax = 0
    /\ boots = 0
    /\ configuration_readings = <<>>
    /\ gidCatalogue = [a \in Assets |-> 0]
    /\ gidTables = [t \in GidTableIds |-> {}]

PurgeIdle ==
    /\ purgeBlockSize = PURGE_DELETE_BLOCK_SIZE
    /\ m_writeAccessOngoing = 0
    /\ writersActive = 0
    /\ writeCalls = 0
    /\ pcPurge = "idle"
    /\ pg = PgIdle
    /\ purgeCall = NoCall
    /\ readings_1 = <<>>
    /\ nextRowId = 1

CatIdle ==
    /\ m_dbId = 1
    /\ m_mutexAssetReadingCatalogue = 0
    /\ catPc = [w \in CatWriters |-> "idle"]
    /\ catAsset = [w \in CatWriters |-> "A"]
    /\ catReadingsId = [w \in CatWriters |-> <<0, "none">>]
    /\ catReturned = [a \in CatAssets |-> {}]
    /\ catPaths = [a \in CatAssets |-> {}]
    /\ catCreated = {}
    /\ catTables = {<<t, 1>> : t \in 1 .. ReadingsAllocate}
    /\ refCalls = 0
    /\ m_AssetReadingCatalogue = [a \in CatAssets |-> <<>>]
    /\ asset_reading_catalogue = {}
    /\ m_nReadingsAvailable = ReadingsAllocate

IngestIdle == IngestInit

AppendIdle == AppendInit

RetryIdle == RetryInit

RecalcIdle == recalcOld = 0

ByRowsIdle ==
    /\ readings = <<>>
    /\ brPc = "idle"
    /\ brArgs = NoByRowsArgs
    /\ brIter = <<>>
    /\ brMaxDeleted = 0
    /\ brResult = NoByRowsResult

(***************************************************************************)
(* Ingest: the statistics (processQueue, logDiscardedStat, updateStats)    *)
(***************************************************************************)
\* the asset names of the readings; a Reading takes any string as its name
StatAssets == {"", "a", "A"}

\* toupper over the characters of a key
ToUpper(s) == IF s = "a" THEN "A" ELSE s

StatKeys == {ToUpper(a) : a \in StatAssets} \cup {"READINGS", "DISCARDED"}

\* the batches processQueue appends
StatBatches == UNION {[1 .. n -> StatAssets] : n \in 1 .. MaxBatch}

\* the readings the statistics component counts
MaxStatReadings == 3

EmptyMap == [a \in {} |-> 0]

MapGet(m, a) == IF a \in DOMAIN m THEN m[a] ELSE 0

\* m[a]++ of a std::map<string, int>: the entry is made when it is missing
MapBump(m, a) == [x \in DOMAIN m \cup {a} |-> MapGet(m, x) + (IF x = a THEN 1 ELSE 0)]

MapAdd(m, c) == [x \in DOMAIN m \cup DOMAIN c |-> MapGet(m, x) + MapGet(c, x)]

RECURSIVE MapSum(_, _)
MapSum(m, S) ==
    IF S = {} THEN 0
    ELSE LET a == CHOOSE x \in S : TRUE IN MapGet(m, a) + MapSum(m, S \ {a})

\* the loop over the readings of an appended batch: statsEntriesCurrQueue.
\* lastStat is <<>> for NULL, <<a>> for the address of the entry of a
RECURSIVE StatsEntriesCurrQueue(_, _, _, _)
StatsEntriesCurrQueue(batch, last, lastStat, cur) ==
    IF batch = <<>> THEN cur
    ELSE LET assetName == Head(batch)
         IN  IF last # assetName
             THEN StatsEntriesCurrQueue(Tail(batch), assetName, <<assetName>>,
                                        MapBump(cur, assetName))
             ELSE IF lastStat # <<>>
             THEN StatsEntriesCurrQueue(Tail(batch), last, lastStat, MapBump(cur, lastStat[1]))
             ELSE StatsEntriesCurrQueue(Tail(batch), last, lastStat, cur)

\* the readings of a batch that carry the name a
CountOf(batch, a) == Cardinality({i \in DOMAIN batch : batch[i] = a})

NoStatsCall == [woke |-> FALSE, pendingEmpty |-> TRUE, discarded |-> 0,
                submitted |-> FALSE, updates |-> [k \in StatKeys |-> 0], rv |-> "none"]

StatsInit ==
    /\ statsPendingMap = EmptyMap
    /\ statsDiscardedCnt = 0
    /\ statsDbEntriesCache = {}
    /\ statistics = [k \in StatKeys |-> 0]
    /\ stPersisted = [a \in StatAssets |-> 0]
    /\ stDiscarded = 0
    /\ stLast = NoStatsCall

\* processQueue after readingAppend returned true: the batch is counted by
\* asset and the counts are added to statsPendingEntries under m_statsMutex
PqCount(batch) ==
    /\ MapSum(stPersisted, StatAssets) + Len(batch) <= MaxStatReadings
    /\ stPersisted' = [a \in StatAssets |-> stPersisted[a] + CountOf(batch, a)]
    /\ statsPendingMap' =
           MapAdd(statsPendingMap, StatsEntriesCurrQueue(batch, "", <<>>, EmptyMap))
    /\ UNCHANGED <<statsDiscardedCnt, statsDbEntriesCache, statistics, stDiscarded, stLast,
                   NotStats>>

\* logDiscardedStat: m_discardedReadings++
LogDiscardedStat ==
    /\ stDiscarded < MaxStatReadings
    /\ stDiscarded' = stDiscarded + 1
    /\ statsDiscardedCnt' = statsDiscardedCnt + 1
    /\ UNCHANGED <<statsPendingMap, statsDbEntriesCache, statistics, stPersisted, stLast,
                   NotStats>>

\* the vector statsUpdates: for each key the value added to it, 0 for a key
\* that has no element
StatsUpdates(pending, discarded) ==
    [k \in StatKeys |->
        IF k = "READINGS" THEN MapSum(pending, DOMAIN pending)
        ELSE IF k = "DISCARDED" THEN discarded
        ELSE MapSum(pending, {a \in DOMAIN pending : ToUpper(a) = k})]

\* updateStats, after the wait on m_statsCv, the whole call under
\* m_statsMutex. rv is what updateTable does: "ok" (rv >= 0), "fail"
\* (rv < 0) or "throw"
UpdateStats(rv) ==
    LET empty == DOMAIN statsPendingMap = {}
        updates == StatsUpdates(statsPendingMap, statsDiscardedCnt)
    IN  /\ stLast' = [woke |-> TRUE, pendingEmpty |-> empty,
                      discarded |-> statsDiscardedCnt,
                      submitted |-> ~empty,
                      updates |-> IF empty THEN NoStatsCall.updates ELSE updates,
                      rv |-> IF empty THEN "none" ELSE rv]
        /\ IF empty
           THEN UNCHANGED <<statsPendingMap, statsDiscardedCnt, statsDbEntriesCache,
                            statistics>>
           ELSE /\ statsDbEntriesCache' = statsDbEntriesCache \cup DOMAIN statsPendingMap
                /\ IF rv = "ok"
                   THEN /\ statistics' = [k \in StatKeys |-> statistics[k] + updates[k]]
                        /\ statsDiscardedCnt' = 0
                        /\ statsPendingMap' = EmptyMap
                   ELSE UNCHANGED <<statsPendingMap, statsDiscardedCnt, statistics>>
        /\ UNCHANGED <<stPersisted, stDiscarded, NotStats>>

UpdateResults == {"ok", "fail", "throw"}

StatsNext ==
    \/ \E batch \in StatBatches : PqCount(batch)
    \/ LogDiscardedStat
    \/ \E rv \in UpdateResults : UpdateStats(rv)

StatsIdle == StatsInit

(***************************************************************************)
(* Ingest: the filter pipeline (processQueue, loadFilters, configChange)   *)
(***************************************************************************)
\* the FilterPipeline objects loadFilters makes
MaxPipes == 3

Pipes == 1 .. MaxPipes

PipeThreads == {"worker", "config"}

\* lock_guard<mutex> guard(m_pipelineMutex) waits until no thread holds it
MutexFree_Ignored == TRUE

MutexFree == m_pipelineMutex = "free"

PipeInit ==
    /\ m_pipelineMutex = "free"
    /\ m_filterPipeline = <<>>
    /\ pipeState = [i \in Pipes |-> "none"]
    /\ plPc = [t \in PipeThreads |-> "idle"]
    /\ filterPipeline = <<>>
    /\ plRunning = TRUE
    /\ plTraversed = <<>>

\* ingestThread: running() reads m_running under the mutex; when it is set
\* the thread waits for the queue and calls processQueue
WorkerRunning ==
    /\ plPc["worker"] = "idle"
    /\ MutexFree
    /\ plRunning
    /\ plPc' = [plPc EXCEPT !["worker"] = "queue"]
    /\ UNCHANGED <<m_pipelineMutex, m_filterPipeline, pipeState, filterPipeline, plRunning,
                   plTraversed, NotPipe>>

\* processQueue takes the mutex before it looks at m_filterPipeline
WorkerLock ==
    /\ plPc["worker"] = "queue"
    /\ MutexFree
    /\ m_pipelineMutex' = "worker"
    /\ plPc' = [plPc EXCEPT !["worker"] = "locked"]
    /\ UNCHANGED <<m_filterPipeline, pipeState, filterPipeline, plRunning, plTraversed,
                   NotPipe>>

\* with a pipeline that has a first filter the batch goes into the chain,
\* otherwise the block ends and the guard lets the mutex go
WorkerTraverse(firstFilter) ==
    /\ plPc["worker"] = "locked"
    /\ IF m_filterPipeline # <<>> /\ firstFilter
       THEN /\ plTraversed' = m_filterPipeline
            /\ plPc' = [plPc EXCEPT !["worker"] = "filter"]
            /\ UNCHANGED m_pipelineMutex
       ELSE /\ m_pipelineMutex' = "free"
            /\ plPc' = [plPc EXCEPT !["worker"] = "idle"]
            /\ UNCHANGED plTraversed
    /\ UNCHANGED <<m_filterPipeline, pipeState, filterPipeline, plRunning, NotPipe>>

\* firstFilter->ingest returns: the batch has left the chain, the block (or
\* processQueue, when no reading is left) ends and the mutex is free
WorkerFiltered ==
    /\ plPc["worker"] = "filter"
    /\ plTraversed' = <<>>
    /\ m_pipelineMutex' = "free"
    /\ plPc' = [plPc EXCEPT !["worker"] = "idle"]
    /\ UNCHANGED <<m_filterPipeline, pipeState, filterPipeline, plRunning, NotPipe>>

\* configChange is called, for the category of the service or for the
\* category of a filter
ConfigChange(service) ==
    /\ plPc["config"] = "idle"
    /\ plPc' = [plPc EXCEPT !["config"] = IF service THEN "service" ELSE "category"]
    /\ UNCHANGED <<m_pipelineMutex, m_filterPipeline, pipeState, filterPipeline, plRunning,
                   plTraversed, NotPipe>>

\* the service branch takes the mutex; a pipeline that has not changed is
\* kept and the call returns, a changed one is cleaned up
CfgCleanup(changed) ==
    /\ plPc["config"] = "service"
    /\ MutexFree
    /\ IF m_filterPipeline = <<>>
       THEN /\ plPc' = [plPc EXCEPT !["config"] = "reload"]
            /\ UNCHANGED <<m_pipelineMutex, pipeState, plRunning>>
       ELSE IF ~changed
       THEN /\ plPc' = [plPc EXCEPT !["config"] = "idle"]
            /\ UNCHANGED <<m_pipelineMutex, pipeState, plRunning>>
       ELSE /\ m_pipelineMutex' = "config"
            /\ plRunning' = FALSE
            /\ pipeState' = [pipeState EXCEPT ![m_filterPipeline[1]] = "cleaned"]
            /\ plPc' = [plPc EXCEPT !["config"] = "delete"]
    /\ UNCHANGED <<m_filterPipeline, filterPipeline, plTraversed, NotPipe>>

\* delete m_filterPipeline; m_filterPipeline = NULL; the block ends
CfgDelete ==
    /\ plPc["config"] = "delete"
    /\ pipeState' = [pipeState EXCEPT ![m_filterPipeline[1]] = "deleted"]
    /\ m_filterPipeline' = <<>>
    /\ m_pipelineMutex' = "free"
    /\ plPc' = [plPc EXCEPT !["config"] = "reload"]
    /\ UNCHANGED <<filterPipeline, plRunning, plTraversed, NotPipe>>

\* loadFilters takes the mutex and makes a local FilterPipeline
LoadNew ==
    /\ plPc["config"] = "reload"
    /\ MutexFree
    /\ IF \E i \in Pipes : pipeState[i] = "none"
       THEN LET i == CHOOSE j \in Pipes :
                         pipeState[j] = "none" /\ \A k \in Pipes : k < j => pipeState[k] # "none"
            IN  /\ m_pipelineMutex' = "config"
                /\ filterPipeline' = <<i>>
                /\ pipeState' = [pipeState EXCEPT ![i] = "new"]
                /\ plPc' = [plPc EXCEPT !["config"] = "load"]
       ELSE /\ plPc' = [plPc EXCEPT !["config"] = "run"]
            /\ UNCHANGED <<m_pipelineMutex, filterPipeline, pipeState>>
    /\ UNCHANGED <<m_filterPipeline, plRunning, plTraversed, NotPipe>>

\* filterPipeline->loadFilters: on an error loadFilters returns false
LoadFilters(ok) ==
    /\ plPc["config"] = "load"
    /\ IF ok
       THEN /\ pipeState' = [pipeState EXCEPT ![filterPipeline[1]] = "loaded"]
            /\ plPc' = [plPc EXCEPT !["config"] = "setup"]
            /\ UNCHANGED <<m_pipelineMutex, filterPipeline>>
       ELSE /\ m_pipelineMutex' = "free"
            /\ filterPipeline' = <<>>
            /\ plPc' = [plPc EXCEPT !["config"] = "run"]
            /\ UNCHANGED pipeState
    /\ UNCHANGED <<m_filterPipeline, plRunning, plTraversed, NotPipe>>

\* setupFiltersPipeline: m_filterPipeline is assigned when it returned true,
\* otherwise the filters are cleaned up
LoadSetup(rval) ==
    /\ plPc["config"] = "setup"
    /\ IF rval
       THEN /\ pipeState' = [pipeState EXCEPT ![filterPipeline[1]] = "ready"]
            /\ m_filterPipeline' = filterPipeline
       ELSE /\ pipeState' = [pipeState EXCEPT ![filterPipeline[1]] = "cleaned"]
            /\ UNCHANGED m_filterPipeline
    /\ m_pipelineMutex' = "free"
    /\ filterPipeline' = <<>>
    /\ plPc' = [plPc EXCEPT !["config"] = "run"]
    /\ UNCHANGED <<plRunning, plTraversed, NotPipe>>

\* m_running = true holding the lock
CfgRun ==
    /\ plPc["config"] = "run"
    /\ MutexFree
    /\ plRunning' = TRUE
    /\ plPc' = [plPc EXCEPT !["config"] = "idle"]
    /\ UNCHANGED <<m_pipelineMutex, m_filterPipeline, pipeState, filterPipeline, plTraversed,
                   NotPipe>>

\* the filter branch takes the mutex and hands the category to the pipeline
CfgFilter ==
    /\ plPc["config"] = "category"
    /\ MutexFree
    /\ IF m_filterPipeline # <<>>
       THEN /\ m_pipelineMutex' = "config"
            /\ pipeState' = [pipeState EXCEPT ![m_filterPipeline[1]] = "config"]
            /\ plPc' = [plPc EXCEPT !["config"] = "configured"]
       ELSE /\ plPc' = [plPc EXCEPT !["config"] = "idle"]
            /\ UNCHANGED <<m_pipelineMutex, pipeState>>
    /\ UNCHANGED <<m_filterPipeline, filterPipeline, plRunning, plTraversed, NotPipe>>

\* m_filterPipeline->configChange returns
CfgFiltered ==
    /\ plPc["config"] = "configured"
    /\ pipeState' = [pipeState EXCEPT ![m_filterPipeline[1]] = "ready"]
    /\ m_pipelineMutex' = "free"
    /\ plPc' = [plPc EXCEPT !["config"] = "idle"]
    /\ UNCHANGED <<m_filterPipeline, filterPipeline, plRunning, plTraversed, NotPipe>>

PipeNext ==
    \/ WorkerRunning
    \/ WorkerLock
    \/ \E firstFilter \in BOOLEAN : WorkerTraverse(firstFilter)
    \/ WorkerFiltered
    \/ \E service \in BOOLEAN : ConfigChange(service)
    \/ \E changed \in BOOLEAN : CfgCleanup(changed)
    \/ CfgDelete
    \/ LoadNew
    \/ \E ok \in BOOLEAN : LoadFilters(ok)
    \/ \E rval \in BOOLEAN : LoadSetup(rval)
    \/ CfgRun
    \/ CfgFilter
    \/ CfgFiltered

PipeIdle == PipeInit

(***************************************************************************)
(* Connection: appendReadings, readingStream and fetchReadings, each call  *)
(* as one step on the readings tables                                      *)
(***************************************************************************)
\* the readings the calls of this component insert
MaxStoreRows == 3

StoreTableIds == 1 .. Cardinality(Assets)

\* the readings of a call, each by its asset code
StoreBatches == UNION {[1 .. n -> Assets] : n \in 1 .. MaxBatch}

StoreRowCount(tables) ==
    Cardinality({<<t, r>> \in StoreTableIds \X (UNION {tables[u] : u \in StoreTableIds}) :
                     r \in tables[t]})

\* getReadingReference for the asset: the table it has, or the next one
StoreReference(catalogue, a) ==
    IF catalogue[a] # 0 THEN catalogue
    ELSE [catalogue EXCEPT ![a] = SetMax({0} \cup {catalogue[x] : x \in Assets}) + 1]

\* appendReadings from the reading i on: the table comes from the catalogue,
\* the id from getGlobalId; a step that fails rolls the transaction back and
\* the call returns -1, the catalogue and m_globalId stay as they are then
RECURSIVE AppendLoop(_, _, _, _, _)
AppendLoop(s, entry, batch, i, failAt) ==
    IF i > Len(batch) THEN [s EXCEPT !.ret = Len(batch)]
    ELSE LET catalogue == StoreReference(s.catalogue, batch[i])
             t == catalogue[batch[i]]
             gid == getGlobalId(s.globalId)
         IN  IF i = failAt
             THEN [tables |-> entry, globalId |-> gid.next, catalogue |-> catalogue,
                   ret |-> -1]
             ELSE AppendLoop([tables |-> [s.tables EXCEPT ![t] = @ \cup {[id |-> gid.id,
                                                                          asset |-> batch[i]]}],
                              globalId |-> gid.next, catalogue |-> catalogue, ret |-> 0],
                             entry, batch, i + 1, failAt)

\* readingStream from the reading i on: INSERT INTO readings_1 (asset_code,
\* reading, user_ts), the id is the AUTOINCREMENT one of the table
RECURSIVE StreamLoop(_, _, _, _, _)
StreamLoop(s, entry, batch, i, failAt) ==
    IF i > Len(batch) THEN [s EXCEPT !.ret = Len(batch)]
    ELSE IF i = failAt THEN [s EXCEPT !.tables = entry, !.ret = -1]
    ELSE StreamLoop([s EXCEPT !.tables[1] =
                         @ \cup {[id |-> SetMax({0} \cup {r.id : r \in s.tables[1]}) + 1,
                                  asset |-> batch[i]]}],
                    entry, batch, i + 1, failAt)

StoreState == [tables |-> stoTables, globalId |-> stoGlobalId, catalogue |-> stoCatalogue,
               ret |-> 0]

appendReadings(batch, failAt) == AppendLoop(StoreState, stoTables, batch, 1, failAt)

\* a prepare that fails makes readingStream return -1 at once
readingStream(batch, prepareOk, failAt) ==
    IF prepareOk THEN StreamLoop(StoreState, stoTables, batch, 1, failAt)
    ELSE [StoreState EXCEPT !.ret = -1]

StoreInit ==
    /\ stoTables = [t \in StoreTableIds |-> {}]
    /\ stoGlobalId = 1
    /\ stoCatalogue = [a \in Assets |-> 0]
    /\ stoLast = <<>>
    /\ stoTwin = <<>>
    /\ stoFetch = <<>>

StoreApply(fn, s, twin) ==
    /\ stoTables' = s.tables
    /\ stoGlobalId' = s.globalId
    /\ stoCatalogue' = s.catalogue
    /\ stoLast' = <<[fn |-> fn, ret |-> s.ret]>>
    /\ stoTwin' = <<twin>>
    /\ UNCHANGED <<stoFetch, NotStore>>

\* one call of appendReadings; failAt names the reading whose step fails
StoreAppend(batch, failAt) ==
    /\ StoreRowCount(stoTables) + Len(batch) <= MaxStoreRows
    /\ stoGlobalId + Len(batch) <= MaxStoreRows + 1
    /\ StoreApply("appendReadings", appendReadings(batch, failAt),
                  readingStream(batch, TRUE, failAt))

\* one call of readingStream with the same readings
StoreStream(batch, prepareOk, failAt) ==
    /\ StoreRowCount(stoTables) + Len(batch) <= MaxStoreRows
    /\ StoreApply("readingStream", readingStream(batch, prepareOk, failAt),
                  appendReadings(batch, failAt))

\* the rows of a table from the smallest id on
RECURSIVE OrderById(_)
OrderById(rows) ==
    IF rows = {} THEN <<>>
    ELSE LET r == CHOOSE x \in rows : \A y \in rows : x.id <= y.id
         IN  <<r>> \o OrderById(rows \ {r})

\* fetchReadings: SELECT ... FROM readings_1 WHERE id >= id ORDER BY id ASC
\* LIMIT blksize; false when the statement cannot be prepared
StoreFetch(id, blksize, prepareOk) ==
    /\ stoFetch' =
           <<[id |-> id, blksize |-> blksize, ok |-> prepareOk,
              rows |-> IF ~prepareOk THEN <<>>
                       ELSE LET found == OrderById({[id |-> r.id, asset |-> r.asset, tbl |-> 1] :
                                                       r \in {x \in stoTables[1] : x.id >= id}})
                            IN  SubSeq(found, 1, Min2(blksize, Len(found)))]>>
    /\ UNCHANGED <<stoTables, stoGlobalId, stoCatalogue, stoLast, stoTwin, NotStore>>

StoreNext ==
    \/ \E batch \in StoreBatches, failAt \in 0 .. MaxBatch : StoreAppend(batch, failAt)
    \/ \E batch \in StoreBatches, prepareOk \in BOOLEAN, failAt \in 0 .. MaxBatch :
          StoreStream(batch, prepareOk, failAt)
    \/ \E id \in 1 .. MaxStoreRows + 1, blksize \in 1 .. MaxStoreRows, prepareOk \in BOOLEAN :
          StoreFetch(id, blksize, prepareOk)

StoreIdle == StoreInit

(***************************************************************************)
(* ReadingsCatalogue: loadAssetReadingCatalogue, preallocateReadingsTables *)
(* and getUsedTablesDbId at the start of the plugin                        *)
(***************************************************************************)
\* the assets in the order their tables were allocated
CatOrder == <<"A", "B", "C">>

\* the catalogue a run with n assets has left in asset_reading_catalogue
LoadedCatalogue(n) ==
    [a \in CatAssets |->
        LET k == CHOOSE i \in DOMAIN CatOrder : CatOrder[i] = a
        IN  IF k <= n THEN <<k, ((k - 1) \div ReadingsAllocate) + 1>> ELSE <<>>]

\* getUsedTablesDbId(dbId): if (item.second.second = dbId) count++ over
\* auto &item: the db id of every entry is overwritten, and the assigned
\* value is true when dbId is not 0
getUsedTablesDbId(cat, dbId) ==
    [count |-> Cardinality({a \in DOMAIN cat : cat[a] # <<>> /\ dbId # 0}),
     cat |-> [a \in DOMAIN cat |-> IF cat[a] = <<>> THEN <<>> ELSE <<cat[a][1], dbId>>]]

\* evaluateLastReadingAvailable: the readings tables of a database file
evaluateLastReadingAvailable(tables, dbId) ==
    LET ids == {t[1] : t \in {x \in tables : x[2] = dbId}}
    IN  [maxId |-> SetMax({0} \cup ids), tableCount |-> Cardinality(ids)]

\* the catalogue is loaded: m_dbId is the largest db id of its rows
PreInit ==
    /\ \E n \in 0 .. Len(CatOrder) - 1 :
          /\ m_AssetReadingCatalogue = LoadedCatalogue(n)
          /\ asset_reading_catalogue =
                 {<<LoadedCatalogue(n)[a][1], LoadedCatalogue(n)[a][2], a>> :
                     a \in {x \in CatAssets : LoadedCatalogue(n)[x] # <<>>}}
          /\ catTables = {<<LoadedCatalogue(n)[a][1], LoadedCatalogue(n)[a][2]>> :
                             a \in {x \in CatAssets : LoadedCatalogue(n)[x] # <<>>}}
          /\ m_dbId = SetMax({1} \cup {LoadedCatalogue(n)[a][2] :
                                          a \in {x \in CatAssets : LoadedCatalogue(n)[x] # <<>>}})
    /\ m_nReadingsAvailable = 0
    /\ m_mutexAssetReadingCatalogue = 0
    /\ catPc = [w \in CatWriters |-> "idle"]
    /\ catAsset = [w \in CatWriters |-> "A"]
    /\ catReadingsId = [w \in CatWriters |-> <<0, "none">>]
    /\ catReturned = [a \in CatAssets |-> {}]
    /\ catPaths = [a \in CatAssets |-> {}]
    /\ catCreated = {}
    /\ refCalls = 0
    /\ preLoaded = <<>>

\* preallocateReadingsTables: the tables the current file lacks are made
\* (with db id 1), a failure of createReadingsTables is not looked at, then
\* m_nReadingsAvailable = readingsToAllocate - getUsedTablesDbId(m_dbId)
preallocateReadingsTables(tablesOk) ==
    /\ preLoaded = <<>>
    /\ LET last == evaluateLastReadingAvailable(catTables, m_dbId)
           used == getUsedTablesDbId(m_AssetReadingCatalogue, m_dbId)
       IN  /\ (last.tableCount < ReadingsAllocate) \/ tablesOk
           /\ catTables' =
                  IF last.tableCount < ReadingsAllocate /\ tablesOk
                  THEN catTables \cup createReadingsTables(1, last.maxId + 1,
                                                           ReadingsAllocate - last.tableCount)
                  ELSE catTables
           /\ m_AssetReadingCatalogue' = used.cat
           /\ m_nReadingsAvailable' = ReadingsAllocate - used.count
           /\ preLoaded' = <<[cat |-> m_AssetReadingCatalogue, dbId |-> m_dbId,
                              used |-> used.count]>>
    /\ UNCHANGED <<asset_reading_catalogue, m_dbId, m_mutexAssetReadingCatalogue, catPc,
                   catAsset, catReadingsId, catReturned, catPaths, catCreated, refCalls,
                   gidVars, purgeVars, ingestVars, appendVars, retryVars, recalcVars,
                   byRowsVars, statsVars, pipeVars, storeVars, lifeVars, fqVars, ordVars>>

\* after the start the writers call getReadingReference
PreNext ==
    \/ \E tablesOk \in BOOLEAN : preallocateReadingsTables(tablesOk)
    \/ (preLoaded # <<>> /\ CatNext)

PreIdle == preLoaded = <<>>

(***************************************************************************)
(* Ingest: the flush thread (ingestThread), the statistics thread          *)
(* (statsThread, updateStats), ~Ingest and configChange, as far as they    *)
(* read and write m_running, m_shutdown and m_statsCv                      *)
(***************************************************************************)
LifeThreads == {"flush", "stats", "dtor", "config"}

\* m_statsCv.notify_one(): the statistics thread leaves its wait when it is
\* in it; a notification that finds no thread waiting is lost
NotifyStats_Kept(pc) ==
    IF pc["stats"] \in {"wait", "block"} THEN [pc EXCEPT !["stats"] = "update"] ELSE pc

NotifyStats(pc) == IF pc["stats"] = "wait" THEN [pc EXCEPT !["stats"] = "update"] ELSE pc

LifeInit ==
    /\ lifePc = [t \in LifeThreads |->
                    CASE t = "flush" -> "top"
                      [] t = "stats" -> "running"
                      [] t = "dtor" -> "none"
                      [] t = "config" -> "idle"]
    /\ IngestInit

\* statsThread: while (ingest->running())
StatsRunning ==
    /\ lifePc["stats"] = "running"
    /\ lifePc' = [lifePc EXCEPT !["stats"] = IF m_running THEN "test" ELSE "exited"]
    /\ UNCHANGED <<m_running, m_shutdown, NotLife>>

\* updateStats: unique_lock lck(m_statsMutex); if (m_running)
StatsTest ==
    /\ lifePc["stats"] = "test"
    /\ lifePc' = [lifePc EXCEPT !["stats"] = IF m_running THEN "block" ELSE "update"]
    /\ UNCHANGED <<m_running, m_shutdown, NotLife>>

\* m_statsCv.wait(lck): the thread releases the mutex and blocks
StatsBlock ==
    /\ lifePc["stats"] = "block"
    /\ lifePc' = [lifePc EXCEPT !["stats"] = "wait"]
    /\ UNCHANGED <<m_running, m_shutdown, NotLife>>

\* a wait without predicate may return with no notification
StatsSpurious ==
    /\ lifePc["stats"] = "wait"
    /\ lifePc' = [lifePc EXCEPT !["stats"] = "update"]
    /\ UNCHANGED <<m_running, m_shutdown, NotLife>>

\* the rest of updateStats, which returns to the loop of statsThread
StatsReturn ==
    /\ lifePc["stats"] = "update"
    /\ lifePc' = [lifePc EXCEPT !["stats"] = "running"]
    /\ UNCHANGED <<m_running, m_shutdown, NotLife>>

\* ingestThread: while (!isStopping()) if (running()) ... else sleep 100 ms
FlushTop ==
    /\ lifePc["flush"] = "top"
    /\ lifePc' = [lifePc EXCEPT !["flush"] =
                     IF m_shutdown THEN "exited" ELSE IF m_running THEN "process" ELSE "top"]
    /\ UNCHANGED <<m_running, m_shutdown, NotLife>>

\* waitForQueue, whose wait is timed, and processQueue: signalStatsUpdate at
\* the end of a pass, not on the return taken when the filters removed
\* every reading
FlushProcess(signalled) ==
    /\ lifePc["flush"] = "process"
    /\ lifePc' = [(IF signalled THEN NotifyStats(lifePc) ELSE lifePc) EXCEPT !["flush"] = "top"]
    /\ UNCHANGED <<m_running, m_shutdown, NotLife>>

\* ~Ingest: m_shutdown = true; m_running = false; m_cv.notify_one()
LifeDtorStart ==
    /\ lifePc["dtor"] = "none"
    /\ m_shutdown' = TRUE
    /\ m_running' = FALSE
    /\ lifePc' = [lifePc EXCEPT !["dtor"] = "join"]
    /\ UNCHANGED NotLife

\* m_thread->join() returns
LifeDtorJoin ==
    /\ lifePc["dtor"] = "join"
    /\ lifePc["flush"] = "exited"
    /\ lifePc' = [lifePc EXCEPT !["dtor"] = "process"]
    /\ UNCHANGED <<m_running, m_shutdown, NotLife>>

\* processQueue() of the destructor, then m_statsCv.notify_one()
LifeDtorNotify ==
    /\ lifePc["dtor"] = "process"
    /\ lifePc' = [NotifyStats(lifePc) EXCEPT !["dtor"] = "joinStats"]
    /\ UNCHANGED <<m_running, m_shutdown, NotLife>>

\* m_statsThread->join() returns
LifeDtorJoinStats ==
    /\ lifePc["dtor"] = "joinStats"
    /\ lifePc["stats"] = "exited"
    /\ lifePc' = [lifePc EXCEPT !["dtor"] = "update"]
    /\ UNCHANGED <<m_running, m_shutdown, NotLife>>

\* updateStats() of the destructor, which waits on m_statsCv when m_running
\* is true, and the deletes
LifeDtorUpdate ==
    /\ lifePc["dtor"] = "update"
    /\ lifePc' = [lifePc EXCEPT !["dtor"] = IF m_running THEN "wait" ELSE "done"]
    /\ UNCHANGED <<m_running, m_shutdown, NotLife>>

\* configChange for the category of the service: with a pipeline that has
\* changed m_running = false and the pipeline is removed; with no pipeline
\* the call goes on to loadFilters
LifeConfigStop(changed) ==
    /\ lifePc["config"] = "idle"
    /\ lifePc["dtor"] # "done"
    /\ m_running' = IF changed THEN FALSE ELSE m_running
    /\ lifePc' = [lifePc EXCEPT !["config"] = "load"]
    /\ UNCHANGED <<m_shutdown, NotLife>>

\* loadFilters has returned: m_running = true under the lock
LifeConfigRun ==
    /\ lifePc["config"] = "load"
    /\ m_running' = TRUE
    /\ lifePc' = [lifePc EXCEPT !["config"] = "idle"]
    /\ UNCHANGED <<m_shutdown, NotLife>>

LifeNext ==
    \/ StatsRunning
    \/ StatsTest
    \/ StatsBlock
    \/ StatsSpurious
    \/ StatsReturn
    \/ FlushTop
    \/ \E signalled \in BOOLEAN : FlushProcess(signalled)
    \/ LifeDtorStart
    \/ LifeDtorJoin
    \/ LifeDtorNotify
    \/ LifeDtorJoinStats
    \/ LifeDtorUpdate
    \/ \E changed \in BOOLEAN : LifeConfigStop(changed)
    \/ LifeConfigRun

\* every thread that can take a step takes it; a spurious wake-up and the
\* calls of ~Ingest and configChange are not promised
LifeFairness ==
    /\ WF_vars(StatsRunning)
    /\ WF_vars(StatsTest)
    /\ WF_vars(StatsBlock)
    /\ WF_vars(StatsReturn)
    /\ WF_vars(FlushTop)
    /\ WF_vars(\E signalled \in BOOLEAN : FlushProcess(signalled))
    /\ WF_vars(LifeDtorJoin)
    /\ WF_vars(LifeDtorNotify)
    /\ WF_vars(LifeDtorJoinStats)
    /\ WF_vars(LifeDtorUpdate)
    /\ WF_vars(LifeConfigRun)

LifeIdle == lifePc = [t \in LifeThreads |-> "none"]

(***************************************************************************)
(* Ingest::processQueue with the filter pipeline: the paths of one call,   *)
(* a batch being the number of its readings                                *)
(***************************************************************************)
\* the sizes of the batches the producers hand over
FqSizes == {1, 6}

\* how many batches m_fullQueues holds in the model
FqFullLens == 0 .. 2

FqInit ==
    /\ fqPc = "idle"
    /\ fqFull = <<>>
    /\ fqResend = <<>>
    /\ fqData = <<>>
    /\ fqFailCnt = 0
    /\ fqUnsignalled = 0
    /\ fqChecked = <<>>
    /\ fqReturn = <<>>

\* return: what the call leaves
FqReturns(path, full, unsignalled, checked) ==
    /\ fqReturn' = <<[path |-> path, full |-> Len(full), unsignalled |-> unsignalled,
                      checkedEmpty |-> checked]>>
    /\ fqPc' = "idle"

\* Ingest::ingest: a producer moves a full queue to m_fullQueues
FqProduce(n) ==
    /\ Len(fqFull) + 1 \in FqFullLens
    /\ fqFull' = Append(fqFull, n)
    /\ UNCHANGED <<fqPc, fqResend, fqData, fqFailCnt, fqUnsignalled, fqChecked, fqReturn, NotFq>>

\* processQueue is called
FqEnter ==
    /\ fqPc = "idle"
    /\ fqPc' = "resend"
    /\ fqUnsignalled' = 0
    /\ fqChecked' = <<>>
    /\ fqReturn' = <<>>
    /\ UNCHANGED <<fqFull, fqResend, fqData, fqFailCnt, NotFq>>

\* one pass of while (m_resendQueues.size() > 0)
FqResend(ok) ==
    /\ fqPc = "resend"
    /\ fqResend # <<>>
    /\ IF ok
       THEN /\ fqFailCnt' = 0
            /\ fqResend' = Tail(fqResend)
            /\ fqUnsignalled' = fqUnsignalled + 1
       ELSE /\ IF ResendDrops(fqFailCnt + 1)
               THEN /\ fqFailCnt' = 0
                    /\ fqResend' = IF fqResend[1] <= ResendDropCount THEN Tail(fqResend)
                                   ELSE <<fqResend[1] - ResendDropCount>> \o Tail(fqResend)
               ELSE /\ fqFailCnt' = fqFailCnt + 1
                    /\ UNCHANGED fqResend
            /\ UNCHANGED fqUnsignalled
    /\ UNCHANGED <<fqPc, fqFull, fqData, fqChecked, fqReturn, NotFq>>

\* under m_fqMutex: m_data is m_queue, which holds n readings, when
\* m_fullQueues is empty, and the front of m_fullQueues otherwise
FqTake(n) ==
    /\ fqPc = "resend"
    /\ fqResend = <<>>
    /\ IF fqFull = <<>>
       THEN /\ fqData' = <<n>>
            /\ UNCHANGED fqFull
       ELSE /\ n = 0
            /\ fqData' = <<fqFull[1]>>
            /\ fqFull' = Tail(fqFull)
    /\ fqChecked' = <<fqFull = <<>> >>
    /\ fqPc' = "filter"
    /\ UNCHANGED <<fqResend, fqFailCnt, fqUnsignalled, fqReturn, NotFq>>

\* the filter block: with no pipeline or no first filter m_data stays; with
\* one the chain leaves left readings in m_data, and when it leaves none
\* m_data is deleted and processQueue returns
FqFilter(pipeline, left) ==
    /\ fqPc = "filter"
    /\ IF ~pipeline
       THEN /\ left = fqData[1]
            /\ fqPc' = "append"
            /\ UNCHANGED <<fqData, fqReturn>>
       ELSE IF left = 0
       THEN /\ fqData' = <<>>
            /\ FqReturns("filtered", fqFull, fqUnsignalled, fqChecked[1])
       ELSE /\ fqData' = <<left>>
            /\ fqPc' = "append"
            /\ UNCHANGED fqReturn
    /\ UNCHANGED <<fqFull, fqResend, fqFailCnt, fqUnsignalled, fqChecked, NotFq>>

\* if (!m_data->empty()) readingAppend: a batch that fails goes to
\* m_resendQueues; then m_data is deleted
FqAppend(ok) ==
    /\ fqPc = "append"
    /\ IF fqData[1] = 0
       THEN /\ ok
            /\ UNCHANGED <<fqResend, fqFailCnt, fqUnsignalled>>
       ELSE IF ok
       THEN /\ fqFailCnt' = 0
            /\ fqUnsignalled' = fqUnsignalled + 1
            /\ UNCHANGED fqResend
       ELSE /\ fqResend' = Append(fqResend, fqData[1])
            /\ fqFailCnt' = 1
            /\ UNCHANGED fqUnsignalled
    /\ fqData' = <<>>
    /\ fqPc' = "loop"
    /\ UNCHANGED <<fqFull, fqChecked, fqReturn, NotFq>>

\* signalStatsUpdate(); } while (!m_fullQueues.empty());
FqLoop ==
    /\ fqPc = "loop"
    /\ fqUnsignalled' = 0
    /\ fqChecked' = <<fqFull = <<>> >>
    /\ IF fqFull = <<>>
       THEN FqReturns("loop", fqFull, 0, TRUE)
       ELSE fqPc' = "resend" /\ UNCHANGED fqReturn
    /\ UNCHANGED <<fqFull, fqResend, fqData, fqFailCnt, NotFq>>

FqNext ==
    \/ \E n \in FqSizes : FqProduce(n)
    \/ FqEnter
    \/ \E ok \in BOOLEAN : FqResend(ok)
    \/ \E n \in {0} \cup FqSizes : FqTake(n)
    \/ \E pipeline \in BOOLEAN, left \in {0} \cup FqSizes : FqFilter(pipeline, left)
    \/ \E ok \in BOOLEAN : FqAppend(ok)
    \/ FqLoop

FqIdle == FqInit

(***************************************************************************)
(* Ingest: from ingest(reading) to the global id.  The readings are of one *)
(* asset, the ingest is running and has no filter pipeline; appendReadings *)
(* gives the readings of a batch rising global ids in the order of the     *)
(* batch, and a batch that fails is rolled back.                           *)
(***************************************************************************)
MaxOrdReadings == 4

OrdInit ==
    /\ ordQueue = <<>>
    /\ ordLocal = [p \in Producers |-> <<>>]
    /\ ordFull = <<>>
    /\ ordResend = <<>>
    /\ ordData = <<>>
    /\ ordFailCnt = 0
    /\ ordPc = "resend"
    /\ ordNext = 1
    /\ ordPersisted = <<>>

\* Ingest::ingest(reading) under m_qMutex: the push and the rotation of a
\* queue that has reached the threshold
OrdIngest(p) ==
    /\ ordLocal[p] = <<>>
    /\ ordNext <= MaxOrdReadings
    /\ ordNext' = ordNext + 1
    /\ LET q == Append(ordQueue, <<ordNext, p>>)
       IN  IF Len(q) >= QueueSizeThreshold
           THEN /\ ordQueue' = <<>>
                /\ ordLocal' = [ordLocal EXCEPT ![p] = q]
           ELSE /\ ordQueue' = q
                /\ UNCHANGED ordLocal
    /\ UNCHANGED <<ordFull, ordResend, ordData, ordFailCnt, ordPc, ordPersisted, NotOrd>>

\* ... and under m_fqMutex: m_fullQueues.push(fullQueue)
OrdPush(p) ==
    /\ ordLocal[p] # <<>>
    /\ ordFull' = Append(ordFull, ordLocal[p])
    /\ ordLocal' = [ordLocal EXCEPT ![p] = <<>>]
    /\ UNCHANGED <<ordQueue, ordResend, ordData, ordFailCnt, ordPc, ordNext, ordPersisted,
                   NotOrd>>

\* processQueue, one pass of while (m_resendQueues.size() > 0)
OrdResend(ok) ==
    /\ ordPc = "resend"
    /\ ordResend # <<>>
    /\ IF ok
       THEN /\ ordPersisted' = ordPersisted \o ordResend[1]
            /\ ordResend' = Tail(ordResend)
            /\ ordFailCnt' = 0
       ELSE /\ IF ResendDrops(ordFailCnt + 1)
               THEN /\ ordFailCnt' = 0
                    /\ ordResend' = IF DropFront(ordResend[1]) = <<>> THEN Tail(ordResend)
                                    ELSE <<DropFront(ordResend[1])>> \o Tail(ordResend)
               ELSE /\ ordFailCnt' = ordFailCnt + 1
                    /\ UNCHANGED ordResend
            /\ UNCHANGED ordPersisted
    /\ UNCHANGED <<ordQueue, ordLocal, ordFull, ordData, ordPc, ordNext, NotOrd>>

\* m_data is m_queue when m_fullQueues is empty, its front otherwise
OrdTake ==
    /\ ordPc = "resend"
    /\ ordResend = <<>>
    /\ IF ordFull = <<>>
       THEN /\ ordData' = ordQueue
            /\ ordQueue' = <<>>
            /\ UNCHANGED ordFull
       ELSE /\ ordData' = ordFull[1]
            /\ ordFull' = Tail(ordFull)
            /\ UNCHANGED ordQueue
    /\ ordPc' = "append"
    /\ UNCHANGED <<ordLocal, ordResend, ordFailCnt, ordNext, ordPersisted, NotOrd>>

\* if (!m_data->empty()) readingAppend; the loop, or the next call of
\* processQueue by ingestThread, starts with the resend queue again
OrdAppend(ok) ==
    /\ ordPc = "append"
    /\ IF ordData = <<>>
       THEN /\ ok
            /\ UNCHANGED <<ordResend, ordFailCnt, ordPersisted>>
       ELSE IF ok
       THEN /\ ordPersisted' = ordPersisted \o ordData
            /\ ordFailCnt' = 0
            /\ UNCHANGED ordResend
       ELSE /\ ordResend' = Append(ordResend, ordData)
            /\ ordFailCnt' = 1
            /\ UNCHANGED ordPersisted
    /\ ordData' = <<>>
    /\ ordPc' = "resend"
    /\ UNCHANGED <<ordQueue, ordLocal, ordFull, ordNext, NotOrd>>

OrdNext ==
    \/ \E p \in Producers : OrdIngest(p)
    \/ \E p \in Producers : OrdPush(p)
    \/ \E ok \in BOOLEAN : OrdResend(ok)
    \/ OrdTake
    \/ \E ok \in BOOLEAN : OrdAppend(ok)

OrdIdle == OrdInit

(***************************************************************************)
(* Specifications                                                          *)
(***************************************************************************)
InitGid == GidInit /\ PurgeIdle /\ CatIdle /\ IngestIdle /\ AppendIdle /\ RetryIdle /\ RecalcIdle /\ ByRowsIdle /\ StatsIdle /\ PipeIdle /\ StoreIdle /\ PreIdle /\ LifeIdle /\ FqIdle /\ OrdIdle

SpecGid == InitGid /\ [][GidNext]_vars

InitPurge == PurgeInit /\ GidIdle /\ CatIdle /\ IngestIdle /\ AppendIdle /\ RetryIdle /\ RecalcIdle /\ ByRowsIdle /\ StatsIdle /\ PipeIdle /\ StoreIdle /\ PreIdle /\ LifeIdle /\ FqIdle /\ OrdIdle

SpecPurge == InitPurge /\ [][PurgeNext]_vars

\* every step of purgeReadings that can be taken is taken, and every
\* appendReadings that was entered returns, with or without its fetch_sub
PurgeFairness ==
    /\ WF_vars(PurgeWait)
    /\ WF_vars(\E usecs \in BlockTimes : PurgeBlock(usecs))
    /\ WF_vars(PurgeScale)
    /\ WF_vars(PurgeGranularity)
    /\ WF_vars(PurgeClampMin)
    /\ WF_vars(PurgeClampMax)
    /\ WF_vars(PurgeFinish)
    /\ WF_vars((\E age \in RowAges : PurgeWriterCommit(age)) \/ PurgeWriterRollback)

SpecPurgeLive == InitPurge /\ [][PurgeNext]_vars /\ PurgeFairness

InitCat == CatInit /\ GidIdle /\ PurgeIdle /\ IngestIdle /\ AppendIdle /\ RetryIdle /\ RecalcIdle /\ ByRowsIdle /\ StatsIdle /\ PipeIdle /\ StoreIdle /\ PreIdle /\ LifeIdle /\ FqIdle /\ OrdIdle

SpecCat == InitCat /\ [][CatNext]_vars

InitIngest == IngestInit /\ GidIdle /\ PurgeIdle /\ CatIdle /\ AppendIdle /\ RetryIdle /\ RecalcIdle /\ ByRowsIdle /\ StatsIdle /\ PipeIdle /\ StoreIdle /\ PreIdle /\ LifeIdle /\ FqIdle /\ OrdIdle

InitAppend == AppendInit /\ GidIdle /\ PurgeIdle /\ CatIdle /\ IngestIdle /\ RetryIdle /\ RecalcIdle /\ ByRowsIdle /\ StatsIdle /\ PipeIdle /\ StoreIdle /\ PreIdle /\ LifeIdle /\ FqIdle /\ OrdIdle

SpecAppend == InitAppend /\ [][AppendNext]_vars

InitRetry == RetryInit /\ GidIdle /\ PurgeIdle /\ CatIdle /\ IngestIdle /\ AppendIdle /\ RecalcIdle /\ ByRowsIdle /\ StatsIdle /\ PipeIdle /\ StoreIdle /\ PreIdle /\ LifeIdle /\ FqIdle /\ OrdIdle

\* a call that runs goes on: the statement returns and the sleep ends
SpecRetry == InitRetry /\ [][RetryNext]_vars /\ WF_vars(\E rc \in SqlResults : RetryAttempt(rc))

\* the threads that run are scheduled; nothing makes a producer call ingest
\* or the service destroy its Ingest
SpecIngest ==
    /\ InitIngest
    /\ [][IngestNext]_vars
    /\ WF_vars(ProducerSteps)
    /\ WF_vars(WorkerSteps)
    /\ WF_vars(DtorSteps)

SpecReconfig == InitIngest /\ [][ReconfigNext]_vars

InitRecalc == RecalcInit /\ GidIdle /\ CatIdle /\ IngestIdle /\ AppendIdle /\ RetryIdle /\ ByRowsIdle /\ StatsIdle /\ PipeIdle /\ StoreIdle /\ PreIdle /\ LifeIdle /\ FqIdle /\ OrdIdle

SpecRecalc == InitRecalc /\ [][RecalcNext]_vars

InitByRows ==
    ByRowsInit /\ GidIdle /\ PurgeIdle /\ CatIdle /\ IngestIdle /\ AppendIdle /\ RetryIdle
        /\ RecalcIdle /\ StatsIdle /\ PipeIdle /\ StoreIdle /\ PreIdle /\ LifeIdle /\ FqIdle /\ OrdIdle

SpecByRows == InitByRows /\ [][ByRowsNext]_vars

InitStats ==
    StatsInit /\ GidIdle /\ PurgeIdle /\ CatIdle /\ IngestIdle /\ AppendIdle /\ RetryIdle
        /\ RecalcIdle /\ ByRowsIdle /\ PipeIdle /\ StoreIdle /\ PreIdle /\ LifeIdle /\ FqIdle /\ OrdIdle

SpecStats == InitStats /\ [][StatsNext]_vars

InitPipe ==
    PipeInit /\ GidIdle /\ PurgeIdle /\ CatIdle /\ IngestIdle /\ AppendIdle /\ RetryIdle
        /\ RecalcIdle /\ ByRowsIdle /\ StatsIdle /\ StoreIdle /\ PreIdle /\ LifeIdle /\ FqIdle /\ OrdIdle

SpecPipe == InitPipe /\ [][PipeNext]_vars

InitStore ==
    StoreInit /\ GidIdle /\ PurgeIdle /\ CatIdle /\ IngestIdle /\ AppendIdle /\ RetryIdle
        /\ RecalcIdle /\ ByRowsIdle /\ StatsIdle /\ PipeIdle /\ PreIdle /\ LifeIdle /\ FqIdle /\ OrdIdle

SpecStore == InitStore /\ [][StoreNext]_vars

InitLife == LifeInit /\ GidIdle /\ PurgeIdle /\ CatIdle /\ AppendIdle /\ RetryIdle /\ RecalcIdle /\ ByRowsIdle /\ StatsIdle /\ PipeIdle /\ StoreIdle /\ PreIdle /\ FqIdle /\ OrdIdle

SpecLife == InitLife /\ [][LifeNext]_vars

SpecLifeLive == InitLife /\ [][LifeNext]_vars /\ LifeFairness

InitFq == FqInit /\ GidIdle /\ PurgeIdle /\ CatIdle /\ IngestIdle /\ AppendIdle /\ RetryIdle /\ RecalcIdle /\ ByRowsIdle /\ StatsIdle /\ PipeIdle /\ StoreIdle /\ PreIdle /\ LifeIdle /\ OrdIdle

SpecFq == InitFq /\ [][FqNext]_vars

InitOrd == OrdInit /\ GidIdle /\ PurgeIdle /\ CatIdle /\ IngestIdle /\ AppendIdle /\ RetryIdle /\ RecalcIdle /\ ByRowsIdle /\ StatsIdle /\ PipeIdle /\ StoreIdle /\ PreIdle /\ LifeIdle /\ FqIdle

SpecOrd == InitOrd /\ [][OrdNext]_vars

InitPre ==
    PreInit /\ GidIdle /\ PurgeIdle /\ IngestIdle /\ AppendIdle /\ RetryIdle
        /\ RecalcIdle /\ ByRowsIdle /\ StatsIdle /\ PipeIdle /\ StoreIdle /\ LifeIdle /\ FqIdle /\ OrdIdle

SpecPre == InitPre /\ [][PreNext]_vars

(***************************************************************************)
(* Claims about Ingest                                                     *)
(***************************************************************************)
\* C1: every reading accepted by Ingest::ingest is eventually persisted by
\* a successful append or counted as discarded, in every fair execution of
\* producers, flush worker and shutdown with appends succeeding or failing
\* arbitrarily.
C1_AcceptedEventuallySettled ==
    \A r \in IngReadings : (ingNext > r) ~> (r \in ingPersisted \cup ingDiscarded)

\* the readings held by a queue of batches
InBatches(qs) == UNION {SeqSet(qs[i]) : i \in DOMAIN qs}

\* the readings accepted by Ingest::ingest and neither persisted nor discarded
IngUnsettled == {r \in IngReadings : r < ingNext} \ (ingPersisted \cup ingDiscarded)

\* the containers of the three that hold the reading r
IngOwners(r) ==
    {c \in {"active", "full", "resend"} :
        \/ c = "active" /\ r \in SeqSet(m_queue)
        \/ c = "full" /\ r \in InBatches(m_fullQueues)
        \/ c = "resend" /\ r \in InBatches(m_resendQueues)}

\* C11: every reading that was accepted and is neither persisted nor
\* discarded is held by exactly one of the queue in use, the full queues and
\* the resend queue, in every reachable state.
C11_OneOwner == \A r \in IngUnsettled : Cardinality(IngOwners(r)) = 1

\* C14: when the append of a batch fails in processQueue the whole batch
\* goes to the tail of the resend queue, its readings in their order, none
\* lost, none twice, none counted in the statistics, none persisted or
\* discarded, and the failure counter is 1.
C14_FailedBatchToResend ==
    [][\A o \in PqOwners :
          PqAppend(o, FALSE) =>
              /\ m_resendQueues' = Append(m_resendQueues, m_data)
              /\ InBatches(m_resendQueues') = InBatches(m_resendQueues) \cup SeqSet(m_data)
              /\ Cardinality(SeqSet(m_data)) = Len(m_data)
              /\ SeqSet(m_data) \cap (SeqSet(m_queue') \cup InBatches(m_fullQueues')) = {}
              /\ m_data' = <<>>
              /\ m_failCnt' = 1
              /\ statsPendingEntries' = statsPendingEntries
              /\ m_discardedReadings' = m_discardedReadings
              /\ ingPersisted' = ingPersisted
              /\ ingDiscarded' = ingDiscarded]_vars

\* C14 witness: the append of a batch of several readings has just failed
C14_Witness ==
    /\ \E o \in PqOwners : ingPc[o] = "loop"
    /\ m_failCnt = 1
    /\ Len(m_resendQueues) = 1
    /\ Len(m_resendQueues[1]) >= 2
    /\ statsPendingEntries = 0

\* a step that discards readings is the sixth failure in a row of the batch
\* at the head of the resend queue and removes its first min(5, size) readings
C15_DropStep ==
    (ingDiscarded' # ingDiscarded) =>
        LET q == Head(m_resendQueues)
            n == Min2(5, Len(q))
        IN  /\ ingFails + 1 = 6
            /\ ingDiscarded' \ ingDiscarded = SeqSet(SubSeq(q, 1, n))
            /\ ingDiscarded \cap SeqSet(q) = {}
            /\ m_discardedReadings' = m_discardedReadings + n
            /\ m_failCnt' = 0
            /\ m_resendQueues' = IF n = Len(q) THEN Tail(m_resendQueues)
                                 ELSE <<SubSeq(q, n + 1, Len(q))>> \o Tail(m_resendQueues)
            /\ ingPersisted' = ingPersisted

\* the discard counter moves only with a drop; a successful append resets
\* the failure counter
C15_CounterStep ==
    /\ (ingDiscarded' = ingDiscarded) => (m_discardedReadings' = m_discardedReadings)
    /\ (ingPersisted' # ingPersisted) => (m_failCnt' = 0)

\* C15: readings leave a resend batch only at its sixth failed append in a
\* row; then the first min(5, size) readings are removed, each counted once
\* as discarded, and the failure counter is reset; every append that
\* succeeds sets the counter to 0; and the resend loop always comes to an
\* end, also when every append fails.
C15_ResendExhaustion ==
    /\ [][C15_DropStep /\ C15_CounterStep]_vars
    /\ \A o \in PqOwners : (ingPc[o] = "resend") ~> (ingPc[o] # "resend")

\* C15 witness: five of the six readings of a batch have been dropped
C15_Witness ==
    /\ m_discardedReadings = 5
    /\ m_failCnt = 0
    /\ Len(m_resendQueues) = 1
    /\ Len(m_resendQueues[1]) = 1
    /\ \E o \in PqOwners : ingPc[o] = "resend"

\* the step in which processQueue takes its batch
PqTakes(o) == ingPc[o] = "resend" /\ ingPc'[o] = "append"

\* the batches rotated out of the queue in use and not yet taken
IngRotated == SeqSet(m_fullQueues) \cup ({prodFull[p] : p \in Producers} \ {<<>>})

\* the queue in use is taken only when no full queue waits, and a full queue
\* that is taken was rotated before every other batch that waits
C16_TakeStep ==
    /\ (m_queue' # m_queue) => (m_fullQueues = <<>>)
    /\ (m_fullQueues' # m_fullQueues) =>
           \A b \in IngRotated \ {m_data'} : m_data'[1] < b[1]

\* C16: no batch of the full queues or of the queue in use is sent while
\* the resend queue holds a batch, the queue in use is taken only when there
\* is no full queue, and the full queues are taken in the order they were
\* rotated: a batch that is taken was rotated before every other batch that
\* waits.
C16_FlushOrdering ==
    /\ [](\A o \in PqOwners : ingPc[o] = "append" => m_resendQueues = <<>>)
    /\ [][\A o \in PqOwners : PqTakes(o) => C16_TakeStep]_vars

\* C19: when the destructor of Ingest has returned, the queue in use, the
\* full queues and the resend queue are empty and every accepted reading is
\* persisted or counted as discarded.
C19_ShutdownDrains ==
    ingPc["dtor"] = "done" =>
        /\ m_queue = <<>>
        /\ m_fullQueues = <<>>
        /\ m_resendQueues = <<>>
        /\ m_data = <<>>
        /\ IngUnsettled = {}

\* the step of Ingest::ingest in which producer p rotates the queue in use
IngestRotates(p) == prodPc[p] = "idle" /\ prodPc'[p] = "push"

\* the step of Ingest::ingest in which producer p has added its readings
IngestAdds(p) == IngestCall(p) \/ IngestVector(p)

\* C21: a call of ingest that leaves the queue in use with threshold
\* readings or more, or is made while the service is stopping, rotates the
\* queue within the call, so that the queue in use holds fewer than
\* threshold readings after every call; and the queue is rotated for no
\* other reason, in particular not because the filters are reconfigured.
C21_RotationOnIngest ==
    /\ [](Len(m_queue) < QueueSizeThreshold)
    /\ [][\A p \in Producers :
             /\ (IngestAdds(p) /\ (Len(m_queue) + (ingNext' - ingNext) >= QueueSizeThreshold
                                      \/ m_shutdown))
                    => IngestRotates(p)
             /\ IngestRotates(p)
                    => (Len(prodFull'[p]) >= QueueSizeThreshold \/ m_shutdown)]_vars

(***************************************************************************)
(* Claims about the global id record                                       *)
(***************************************************************************)
\* the service has adopted an id and has not issued one yet
JustBooted == svc \in {"booting", "up"} /\ curLast = <<>>

\* C5: a graceful shutdown (storeGlobalId) followed by a restart
\* (evaluateGlobalId) with no crash in between round-trips the global id: the
\* id adopted after the restart is the last id issued before the shutdown
\* plus one.
C5_ShutdownRestartRoundTrip ==
    (JustBooted /\ prevStop = "graceful" /\ prevLast # <<>>)
        => m_globalId = prevLast[1] + 1

\* C6: for every stored value v of the global id record, evaluateGlobalId
\* adopts v when v >= 1 and max(id)+1 over every readings table otherwise
\* (1 when all tables are empty); the adopted id is always >= 1.
C6_GlobalIdBoot ==
    (JustBooted /\ bootStored # <<>>)
        => /\ m_globalId = IF bootStored[1] >= 1 THEN bootStored[1] ELSE bootMax + 1
           /\ m_globalId >= 1

\* C7: from the completion of the global id boot until a graceful shutdown
\* the stored record holds -1, and a restart after a crash of the running
\* service reads -1 and adopts an id strictly greater than every id present
\* in any readings table.
C7_CrashForcesRecompute ==
    /\ svc = "up" => configuration_readings = <<-1>>
    /\ (svc = "booting" /\ prevStop = "crash")
          => /\ bootStored = <<-1>>
             /\ \A i \in AllRowIds(gidTables) : m_globalId > i


\* C2: the global id is strictly monotonic over the lifetime of the service:
\* the id bound into the latest INSERT is greater than every id bound before
\* it, in this run of the service or in an earlier one, and no id is bound
\* twice.
C2_GlobalIdMonotonic ==
    (svc = "up" /\ curLast # <<>>) =>
        /\ prevLast # <<>> => curLast[1] > prevLast[1]
        /\ curLast[1] = SqlMaxId(AllRowIds(gidTables))
        /\ m_globalId > curLast[1]


(***************************************************************************)
(* Claims about the asset catalogue                                        *)
(***************************************************************************)
CatMapped == {a \in CatAssets : m_AssetReadingCatalogue[a] # <<>>}

\* C3: after any interleaving of getReadingReference calls every asset that
\* was passed to a finished call has its one entry in the catalogue, all
\* calls for an asset returned the table_id of that entry, and an entry put
\* into the catalogue is still there unchanged.
C3_OneEntryPerAsset ==
    /\ \A a \in CatAssets :
          catReturned[a] # {} =>
              /\ a \in CatMapped
              /\ catReturned[a] = {m_AssetReadingCatalogue[a][1]}
    /\ \A e \in catCreated : m_AssetReadingCatalogue[e[1]] = e[2]

\* C3 witness: calls for one asset have returned by the lookup outside the
\* mutex, by the second lookup under it and by an allocation.
C3_Witness ==
    \E a \in CatAssets : catPaths[a] = {"fast", "recheck", "alloc"}

\* C4: two asset codes never share a table: asset_code -> table_id is
\* injective in every catalogue state, in the map and in the table.
C4_TablePerAsset ==
    /\ \A a, b \in CatMapped :
          a # b => m_AssetReadingCatalogue[a][1] # m_AssetReadingCatalogue[b][1]
    /\ \A r, q \in asset_reading_catalogue : r[3] # q[3] => r[1] # q[1]

\* C4 witness: every asset has its table, the tables are in more than one
\* database file, and a call that allocated one is about to return while
\* another writer waits for the mutex.
C4_Witness ==
    /\ CatMapped = CatAssets
    /\ m_dbId > 1
    /\ \E w, v \in CatWriters :
          catPc[w] = "unlock" /\ catReadingsId[w][2] = "alloc" /\ catPc[v] = "lock"

(***************************************************************************)
(* Claims about purgeReadings                                              *)
(***************************************************************************)
\* a purgeReadings call has returned and no other has started since
PurgeReturned == pcPurge = "idle" /\ purgeCall.returned

\* the rows a purge by age of `age` hours is to remove
OldRows(tbl, age) == {row \in RowsOf(tbl) : row.age > 3600 * age}

\* user_ts does not decrease with the rowid
UserTsMonotone(tbl) == \A j, k \in DOMAIN tbl : j < k => tbl[j].age >= tbl[k].age

\* C8: purgeBlockSize is within [MIN_PURGE_DELETE_BLOCK_SIZE,
\* MAX_PURGE_DELETE_BLOCK_SIZE] in every reachable state, the steps of a
\* recalculation included.
C8_PurgeBlockSizeInRange ==
    purgeBlockSize \in MIN_PURGE_DELETE_BLOCK_SIZE .. MAX_PURGE_DELETE_BLOCK_SIZE

\* C9: after purgeReadings(age = H, flags with the keep-unsent bit, sent) has
\* returned, no row older than H with id <= sent remains and every row with
\* id > sent that was there before the call is still there.
C9_PurgeKeepsUnsent ==
    (PurgeReturned /\ purgeCall.flags % 2 = 1 /\ purgeCall.age # 0) =>
        /\ \A row \in OldRows(readings_1, purgeCall.age) : row.id > purgeCall.sent
        /\ \A row \in RowsOf(purgeCall.tbl0) :
              row.id > purgeCall.sent => row \in RowsOf(readings_1)

\* C10: on a table whose user_ts does not decrease with the rowid,
\* purgeReadings(age = H, flags = 0, sent = 0) removes exactly the rows older
\* than H that were there when it started, and both the value it returns and
\* the removed field are the number of those rows.
C10_PurgeByAgeExact ==
    (/\ PurgeReturned
     /\ purgeCall.flags = 0 /\ purgeCall.sent = 0 /\ purgeCall.age # 0
     /\ purgeCall.tbl0 # <<>>
     /\ UserTsMonotone(purgeCall.tbl0)) =>
        /\ RowsOf(purgeCall.tbl0) \cap RowsOf(readings_1)
              = RowsOf(purgeCall.tbl0) \ OldRows(purgeCall.tbl0, purgeCall.age)
        /\ purgeCall.ret = Cardinality(OldRows(purgeCall.tbl0, purgeCall.age))
        /\ purgeCall.result.removed = purgeCall.ret

\* C18: purgeReadings never starts a DELETE block while the write counter
\* m_writeAccessOngoing is non-zero: in every interleaving with the bulk
\* writers each DELETE block begins in a state where no writer holds the
\* counter.
C18_NoDeleteWhileWriting ==
    [][(\E usecs \in BlockTimes : PurgeBlock(usecs)) => m_writeAccessOngoing = 0]_vars

(***************************************************************************)
(* Claims about appendReadings                                             *)
(***************************************************************************)
\* the last call has returned ret for the given cause
ApReturned(cause) == apPc = "idle" /\ apReturn # <<>> /\ apReturn[1].cause = cause

\* the rows of the call that ran last
ApRowsOfCall(rows) == {r \in rows : r[1] = apCall}

\* the indexes of the readings of the last payload of the given kind
ApOfKind(kind) == {i \in DOMAIN apBatch : apBatch[i].kind = kind}

C13_BadDateDiscarded ==
    (apPc = "idle" /\ apReturn # <<>> /\ apReturn[1].ret >= 0) =>
        /\ \A i \in ApOfKind("baddate") : <<apCall, i>> \notin apCommitted
        /\ apReturn[1].ret = Cardinality(ApRowsOfCall(apCommitted))
        /\ m_discardedReadings = apBadDates

\* C20: for every reading of the batch with a valid date, either its row is
\* inserted or the call rolls back and returns -1; a failure to prepare the
\* INSERT statement and a BUSY or LOCKED result that stays after
\* PREP_CMD_MAX_RETRIES retries make the call roll back and return -1.
C20_InsertedOrRolledBack ==
    (apPc = "idle" /\ apReturn # <<>>) =>
        \/ /\ apReturn[1].ret = -1
           /\ ApRowsOfCall(apCommitted \cup apPending) = {}
        \/ /\ apReturn[1].ret >= 0
           /\ \A i \in ApOfKind("ok") : <<apCall, i>> \in apCommitted

(***************************************************************************)
(* Claims about SQLexec and SQLStep                                        *)
(***************************************************************************)
\* the statement is run again only after a BUSY or LOCKED result
C17_AttemptStep ==
    (sqlAttempts' = sqlAttempts + 1 /\ sqlAttempts >= 1) =>
        (sqlRc # <<>> /\ sqlRc[1] \in {"BUSY", "LOCKED"})

\* C17: SQLexec and SQLStep run the statement again only when the result
\* is BUSY or LOCKED, make at most 40 attempts, always terminate and return
\* the result of the last attempt; any other result is returned after
\* exactly one attempt.
C17_RetryExecutor ==
    /\ [](sqlAttempts <= 40)
    /\ [][C17_AttemptStep]_vars
    /\ [](sqlReturned # <<>> =>
             /\ sqlReturned = sqlRc
             /\ sqlAttempts >= 1
             /\ sqlRc[1] \in {"BUSY", "LOCKED"} => sqlAttempts = 40)
    /\ [](sqlAttempts >= 2 => sqlSlept > 0)
    /\ (sqlPc = "run") ~> (sqlPc = "idle" /\ sqlReturned # <<>>)

\* C17 witness: the call gave up after BUSY or LOCKED at every attempt
C17_Witness ==
    /\ sqlPc = "idle"
    /\ sqlReturned = <<"BUSY">>
    /\ sqlAttempts = MAX_RETRIES
    /\ sqlFn = "SQLStep"

\* the block size the adaptive sizing step is to give: unchanged when the
\* average is within 7000 of 70000, else old * (70000 / avg) with the factor
\* held in [0.5, 2.0], rounded down to a multiple of 5, held in [20, 1500]
C22_Expected(old, avg) ==
    IF Abs(avg - 70000) <= 7000 THEN old
    ELSE LET scaled == IF 2 * avg <= 70000 THEN ((2 * old) \div 5) * 5
                       ELSE IF avg >= 2 * 70000 THEN (old \div 10) * 5
                       ELSE ((old * 70000) \div (avg * 5)) * 5
         IN  Max2(20, Min2(1500, scaled))

\* C22: at a recalculation the block size is unchanged when |avg - 70000|
\* <= 7000; otherwise the new size is the old size times 70000/avg, the
\* factor held in [0.5, 2.0], rounded down to a multiple of 5 and then held
\* in [20, 1500]; a block time of 300 ms halves the size down to 20.
C22_AdaptiveStep ==
    pcPurge = "loop" => purgeBlockSize = C22_Expected(recalcOld, pg.avg)

(***************************************************************************)
(* Claims about purgeReadingsByRows                                        *)
(***************************************************************************)
\* C23: purgeReadingsByRows with the keep-unsent flag never deletes a row
\* whose id is greater than sent: in every pass the delete point is at most
\* the smaller of sent and the ceiling the row count gives.
C23_ByRowsKeepsUnsent ==
    brArgs.flags = 1 =>
        /\ brMaxDeleted <= brArgs.sent
        /\ brIter # <<>> => brIter[1].deletePoint <= Min2(brArgs.sent, brIter[1].ceiling)

(***************************************************************************)
(* Claims about the statistics                                             *)
(***************************************************************************)
\* C25, the step: the pending counts and the pending discarded count go
\* down only in a call of updateStats whose update succeeded, which clears
\* them; a call whose update failed or threw leaves them as they were
C25_ClearStep ==
    /\ (\/ statsDiscardedCnt' < statsDiscardedCnt
        \/ \E a \in DOMAIN statsPendingMap :
               MapGet(statsPendingMap', a) < statsPendingMap[a])
           => /\ stLast'.rv = "ok"
              /\ statsPendingMap' = EmptyMap
              /\ statsDiscardedCnt' = 0
    /\ (stLast' # stLast /\ stLast'.rv \in {"fail", "throw"})
           => UNCHANGED <<statsPendingMap, statsDiscardedCnt, statistics>>

C25_ClearedOnlyOnSuccess == [][C25_ClearStep]_vars

\* C25: statistics deltas are applied exactly once: for every key the sum
\* submitted in the updates that succeeded plus what is still pending is
\* the number of readings persisted for the assets of that key, the same
\* for READINGS over all assets and for DISCARDED over the discarded
\* readings: nothing is lost and nothing counted twice
C25_ExactlyOnce ==
    /\ \A k \in StatKeys \ {"READINGS", "DISCARDED"} :
           statistics[k] + MapSum(statsPendingMap, {a \in StatAssets : ToUpper(a) = k})
               = MapSum(stPersisted, {a \in StatAssets : ToUpper(a) = k})
    /\ statistics["READINGS"] + MapSum(statsPendingMap, StatAssets)
           = MapSum(stPersisted, StatAssets)
    /\ statistics["DISCARDED"] + statsDiscardedCnt = stDiscarded

\* C26: the READINGS and DISCARDED statistics are always updated: a call of
\* updateStats that finds discarded readings pending submits the DISCARDED
\* key with their number, also when the pending map is empty; and a call
\* that submits per-asset deltas adds their sum to READINGS
C26_AlwaysUpdated ==
    /\ (stLast.woke /\ stLast.discarded # 0)
           => (stLast.submitted /\ stLast.updates["DISCARDED"] = stLast.discarded)
    /\ stLast.submitted
           => stLast.updates["READINGS"]
                  = MapSum(stLast.updates, StatKeys \ {"READINGS", "DISCARDED"})

(***************************************************************************)
(* Claims about the filter pipeline                                        *)
(***************************************************************************)
\* C24, the step: a pipeline is made, set up, reconfigured, cleaned up or
\* deleted, and m_filterPipeline is written, only in steps before and after
\* which no batch of the worker is in the chain
C24_ChangeStep ==
    (pipeState' # pipeState \/ m_filterPipeline' # m_filterPipeline)
        => (plTraversed = <<>> /\ plTraversed' = <<>>)

\* C24: hot reconfiguration excludes the flush worker from the pipeline:
\* the worker holds the pipeline mutex for the whole traversal and the
\* chain it traverses is the set-up chain m_filterPipeline points to; the
\* chain is cleaned up, deleted or reconfigured only under the mutex; the
\* pointer the worker sees under the mutex is NULL or a set-up chain; and
\* the chain changes only while no batch is in it
C24_PipelineExclusion ==
    /\ [](plTraversed # <<>> =>
              /\ m_pipelineMutex = "worker"
              /\ m_filterPipeline = plTraversed
              /\ pipeState[plTraversed[1]] = "ready")
    /\ [](\A i \in Pipes : (pipeState[i] = "config" \/ filterPipeline = <<i>>)
              => m_pipelineMutex = "config")
    /\ []((m_pipelineMutex # "config" /\ m_filterPipeline # <<>>)
              => pipeState[m_filterPipeline[1]] = "ready")
    /\ [][C24_ChangeStep]_vars

\* C24, witness: a batch is in the chain of a pipeline that replaced a
\* deleted one while configChange has been called and waits for the mutex
C24_Witness ==
    /\ plTraversed # <<>>
    /\ plPc["config"] \in {"service", "category"}
    /\ \E i \in Pipes : pipeState[i] = "deleted"

(***************************************************************************)
(* Claims about fetchReadings and readingStream                            *)
(***************************************************************************)
\* the persisted readings of every table with an id from the given one on
StoreRowsFrom(id) ==
    UNION {{[id |-> r.id, asset |-> r.asset, tbl |-> t] : r \in {x \in stoTables[t] : x.id >= id}} :
              t \in StoreTableIds}

\* C27: fetchReadings(from_id, blk_size) returns exactly the blk_size rows
\* with the smallest ids among all persisted readings with id >= from_id
\* (fewer when fewer exist), in ascending id order, whichever per-asset
\* table holds them
C27_FetchAllTables ==
    (stoFetch # <<>> /\ stoFetch[1].ok) =>
        LET f == stoFetch[1]
            all == StoreRowsFrom(f.id)
            got == {f.rows[i] : i \in DOMAIN f.rows}
        IN  /\ Len(f.rows) = Min2(f.blksize, Cardinality(all))
            /\ Cardinality(got) = Len(f.rows)
            /\ got \subseteq all
            /\ \A r \in got, o \in all \ got : r.id <= o.id
            /\ \A i, j \in DOMAIN f.rows : i < j => f.rows[i].id <= f.rows[j].id

\* C28: readingStream has the same semantics as appendReadings: for the
\* same readings on the same storage both leave the same rows in the same
\* readings tables and return the same value
C28_StreamAsAppend ==
    stoTwin # <<>> =>
        /\ stoTwin[1].tables = stoTables
        /\ stoTwin[1].ret = stoLast[1].ret

(***************************************************************************)
(* Claims about the allocation of the readings tables                      *)
(***************************************************************************)
\* the table ids of the catalogue
CatTableIds == {m_AssetReadingCatalogue[a][1] : a \in CatMapped}

\* C29, the step: an asset that enters the catalogue gets the largest table
\* id of the catalogue plus one, and no entry of the catalogue changes
C29_AllocateStep ==
    \A a \in CatAssets :
        IF m_AssetReadingCatalogue[a] = <<>>
        THEN m_AssetReadingCatalogue'[a] # <<>> =>
                 m_AssetReadingCatalogue'[a][1] = getMaxReadingsId(m_AssetReadingCatalogue) + 1
        ELSE m_AssetReadingCatalogue'[a] = m_AssetReadingCatalogue[a]

\* C29: catalogue allocation keeps the table ids dense and monotonic: from
\* a catalogue with the ids {1..n} (or none) the ids are {1..m} after any
\* calls of getReadingReference, and each new id is the maximum plus one
C29_DenseMonotonic ==
    /\ [](CatTableIds = 1 .. Cardinality(CatMapped))
    /\ [][C29_AllocateStep]_vars

\* C29, witness: every asset has got its table, the first one was in the
\* catalogue at the start and the others were allocated, in other
\* database files
C29_Witness ==
    /\ CatMapped = CatAssets
    /\ CatTableIds = 1 .. Cardinality(CatAssets)
    /\ Cardinality(catCreated) = Cardinality(CatAssets) - 1
    /\ \E a \in CatAssets : m_AssetReadingCatalogue[a][2] > 1

\* C30, the step: a call that gives an asset its table while the counter of
\* the free tables is <= 0 has run the expansion to a new database file
\* first (m_dbId went up in the same step)
C30_AllocateStep ==
    (m_nReadingsAvailable <= 0 /\ \E a \in CatAssets :
            m_AssetReadingCatalogue[a] = <<>> /\ m_AssetReadingCatalogue'[a] # <<>>)
        => m_dbId' = m_dbId + 1

\* C30: new-DB expansion precedes allocation when nothing is free: no asset
\* gets a table while the counter is <= 0 without the expansion having run
\* in the same call, the counter never becomes negative through
\* allocation, and every table id given to an asset names a readings table
\* that exists in the database file recorded as the db_id of its entry
C30_ExpansionBeforeAllocation ==
    /\ [][C30_AllocateStep]_vars
    /\ [](m_nReadingsAvailable >= 0)
    /\ [](\A a \in CatMapped :
              <<m_AssetReadingCatalogue[a][1], m_AssetReadingCatalogue[a][2]>> \in catTables)

(***************************************************************************)
(* Claims about the start of the catalogue                                 *)
(***************************************************************************)
\* C31: getUsedTablesDbId(d) compares, it does not assign: it returns the
\* number of entries of the catalogue whose db id is d and leaves every
\* entry as it was, so after the pre-allocation each asset of the loaded
\* catalogue still has the database file it was allocated in
C31_UsedTablesCompares ==
    preLoaded # <<>> =>
        LET p == preLoaded[1]
            loaded == {a \in CatAssets : p.cat[a] # <<>>}
        IN  /\ p.used = Cardinality({a \in loaded : p.cat[a][2] = p.dbId})
            /\ \A a \in loaded : m_AssetReadingCatalogue[a] = p.cat[a]

(***************************************************************************)
(* Claims about the resend queue                                           *)
(***************************************************************************)
\* C39, the step: a batch is put on the resend queue only when the resend
\* loop has left it empty
C39_PushStep == Len(m_resendQueues') > Len(m_resendQueues) => m_resendQueues = <<>>

\* C39: the resend queue holds at most one batch in every reachable state:
\* a batch is appended to it only after the resend loop has emptied it, so
\* m_failCnt counts the failures of the one batch at its head and is 0 when
\* there is none
C39_OneResendBatch ==
    /\ [](Len(m_resendQueues) <= 1)
    /\ [](m_resendQueues = <<>> => m_failCnt = 0)
    /\ [](m_resendQueues # <<>> => m_failCnt = ingFails)
    /\ [][C39_PushStep]_vars

\* C39, witness: the batch on the resend queue has failed more than once
\* while a later batch waits on the full queues
C39_Witness ==
    /\ Len(m_resendQueues) = 1
    /\ m_failCnt > 1
    /\ m_fullQueues # <<>>

(***************************************************************************)
(* Claims about the write counter                                          *)
(***************************************************************************)
\* C33: the write counter m_writeAccessOngoing is balanced: every exit path
\* of appendReadings (success, commit failure, non-object reading, INSERT
\* error with rollback) leaves the counter at the value it had on entry, so
\* the counter is 0 whenever no bulk writer is executing.
C33_WriteCounterBalanced == apPc = "idle" => m_writeAccessOngoing = 0

\* C34: purgeReadings terminates: when every appendReadings that was entered
\* returns and every DELETE completes, the wait on the write counter ends,
\* the block loop reaches the purge ceiling and the call returns
C34_PurgeTerminates == (pcPurge # "idle") ~> (pcPurge = "idle")

\* C40: purgeReadingsByRows(rows, ...) never leaves fewer than rows
\* readings: over every table contents, also ids that are not dense, and
\* every value of sent and flags, a pass that starts with at least rows
\* readings in the table ends with at least rows readings in it.
C40_NeverBelowRows ==
    [][(brPc = "loop" /\ TblCount(readings) >= brArgs.rows)
           => TblCount(readings') >= brArgs.rows]_vars

(***************************************************************************)
(* Claims about the threads of Ingest                                      *)
(***************************************************************************)
\* C35: shutdown terminates: in every interleaving of ~Ingest with the flush
\* thread, the statistics thread and a configChange, both joins complete and
\* the destructor returns.
C35_ShutdownTerminates == m_shutdown ~> (lifePc["dtor"] = "done")

\* C36: the statistics thread stays alive until shutdown: in every
\* interleaving with a reconfiguration of the filter pipeline the thread
\* does not exit before ~Ingest has set m_shutdown.
C36_StatsAliveUntilShutdown == lifePc["stats"] = "exited" => m_shutdown

(***************************************************************************)
(* Claims about the window of a reconfiguration                            *)
(***************************************************************************)
\* configChange has removed the pipeline that changed and loadFilters has
\* not yet taken the mutex to install the new one
C37_Window == plPc["config"] = "reload" /\ ~plRunning

\* C37, the step: processQueue leaves its filter block without having sent
\* the batch into a chain, and goes on to readingAppend
C37_UnfilteredStep == plPc["worker"] = "locked" /\ plPc'["worker"] = "idle"

\* C37: while the service category configures a filter chain that is not
\* empty, no batch reaches storage without having traversed a filter chain:
\* in every interleaving of the flush thread with configChange, the flush
\* thread does not pass an absent pipeline in the window in which the old
\* chain has been removed and the new one is not yet installed.
C37_NoUnfilteredInWindow == [][C37_UnfilteredStep => ~C37_Window]_vars

(***************************************************************************)
(* Claims about the returns of processQueue                                *)
(***************************************************************************)
\* C38: every call of processQueue that returns leaves the full queues
\* empty as of its last check and has signalled the statistics thread after
\* each batch it persisted, on every exit path, also the one taken when the
\* filter chain removes all readings of a batch.
C38_ReturnChecked ==
    fqReturn # <<>> =>
        /\ fqReturn[1].unsignalled = 0
        /\ fqReturn[1].checkedEmpty \/ fqReturn[1].full = 0

(***************************************************************************)
(* Claims about the order of the inserts                                   *)
(***************************************************************************)
\* C32: the insert order of an asset is preserved: of two readings of the
\* same asset accepted from one producer, the one accepted first is
\* persisted with the smaller global id, within a batch and across batches,
\* also when an earlier batch failed and went through the resend queue.
C32_InsertOrder ==
    \A i, j \in DOMAIN ordPersisted :
        (i < j /\ ordPersisted[i][2] = ordPersisted[j][2])
            => ordPersisted[i][1] < ordPersisted[j][1]

====
